---------------------------- MODULE Spec2Model ----------------------------
(***************************************************************************)
(* Model of the CIRED alumni directory pipeline:                           *)
(*   - 2_Merge/merge.py : name normalization, override tables, grouping    *)
(*                        and merging of vCards;                           *)
(*   - utils.py and 4_Clean/clean.py : the transform stage                 *)
(*                        (ingest_vcards, process_vcards, clean).          *)
(*                                                                         *)
(* A Python str is a sequence of characters; a character is a one-letter   *)
(* string, or an upper-case token for a code point outside ASCII           *)
(* ("e_acute" is U+00E9, "COMBINING_ACUTE" is U+0301).                     *)
(***************************************************************************)
EXTENDS Integers, Sequences, FiniteSets, TLC

VARIABLES
    \* --- normalize_name applied to a name given as words (SpecNorm)
    given,        \* the given names g1..gn, each a str
    surname,      \* the surname s, a str
    kLast,        \* normalize_name("g1 ... gn s")
    kFirst,       \* normalize_name("s g1 ... gn")
    kComma,       \* normalize_name("s, g1 ... gn")
    kTwice,       \* normalize_name(normalize_name("g1 ... gn s"))
    \* --- main() of merge.py (SpecMerge)
    scenario,         \* which cards the input files hold
    mpc,              \* where main() is: ingest, grouped, merged, written, done, raised
    file_status,      \* what is at the path of each name of INPUT_FILES_NAMES
    fileIdx,          \* the file of INPUT_FILES being read (0: none yet)
    output_file,      \* write_merged_contacts: the output file
    all_contacts,     \* ingest_contacts: the cards read so far
    sources,          \* ingest_contacts: the file of each card
    grouped,          \* group_contacts: key -> cards
    grouped_sources,  \* group_contacts: key -> files
    merged_contacts,  \* merge_all_contacts: the merged cards
    inverted_pairs,   \* verify_inverted_fn_pairs: the pairs it reports
    \* --- normalize_fn applied to two cards (SpecFn)
    fnA, fnB,         \* the FN lines of the two cards
    keyA, keyB,       \* their normalize_fn keys
    \* --- main() of 4_Clean/clean.py (SpecStage)
    spc,              \* where main() is: start, processing, output, done, aborted
    stdin,            \* the cards of the input text
    limit,            \* args.limit
    vcard_list,       \* main: vcards, the card objects made by ingest_vcards
    processed_cards,  \* process_vcards: the list it builds
    error_log,        \* the cards of the "Error processing vCard" log lines
    stdout,           \* the texts printed by output_vcards
    \* --- normalize_name applied to two names (SpecPair)
    nameL, nameR,     \* the two names
    keyL, keyR,       \* their normalize_name keys
    \* --- deduplicate_CIRED_ORG applied to a card built line by line (SpecOrg)
    opc,              \* where the run is: building, deduplicated
    org_values,       \* the values given to the ORG lines, in order
    ovcard,           \* the card
    \* --- one turn of the loop of ingest_contacts (SpecIngest)
    ipc,              \* where the turn is: read, fn, ingested, raised
    iraw,             \* the card as vobject read it
    ivcard,           \* the card object
    \* --- collect_emails and its thread pool (SpecCollect)
    cpc,              \* where collect_emails is: walk, map, returned, interrupted
    mail_dir,         \* the files that os.walk finds, in order
    file_paths,       \* the files handed to the workers
    wpc,              \* per call: queued, running, done
    returned,         \* per call: the set the worker returned
    yielded,          \* how many results the calling thread has taken
    all_emails,       \* the set of the calling thread
    collected,        \* the list collect_emails returns
    \* --- fix_vcard applied twice (SpecFix)
    fscript,          \* which of the two scripts runs
    fcard,            \* the card as it was read
    fvcard,           \* the card object
    fonce,            \* the card object after the first call
    fapplied,         \* the number of calls made
    fraised           \* whether the last call raised

normVars == <<given, surname, kLast, kFirst, kComma, kTwice>>

mergeVars == <<scenario, mpc, file_status, fileIdx, output_file, all_contacts,
               sources, grouped, grouped_sources, merged_contacts, inverted_pairs>>

fnVars == <<fnA, fnB, keyA, keyB>>

stageVars == <<spc, stdin, limit, vcard_list, processed_cards, error_log, stdout>>

pairVars == <<nameL, nameR, keyL, keyR>>

orgVars == <<opc, org_values, ovcard>>

ingestVars == <<ipc, iraw, ivcard>>

collectVars == <<cpc, mail_dir, file_paths, wpc, returned, yielded, all_emails, collected>>

fixVars == <<fscript, fcard, fvcard, fonce, fapplied, fraised>>

vars == <<normVars, mergeVars, fnVars, stageVars, pairVars, orgVars, ingestVars, collectVars,
          fixVars>>

\* What the actions of one specification leave alone.
notNorm  == <<mergeVars, fnVars, stageVars, pairVars, orgVars, ingestVars, collectVars,
              fixVars>>
notMerge == <<normVars, fnVars, stageVars, pairVars, orgVars, ingestVars, collectVars,
              fixVars>>
notFn    == <<normVars, mergeVars, stageVars, pairVars, orgVars, ingestVars, collectVars,
              fixVars>>
notStage == <<normVars, mergeVars, fnVars, pairVars, orgVars, ingestVars, collectVars,
              fixVars>>
notPair  == <<normVars, mergeVars, fnVars, stageVars, orgVars, ingestVars, collectVars,
              fixVars>>
notOrg   == <<normVars, mergeVars, fnVars, stageVars, pairVars, ingestVars, collectVars,
              fixVars>>
notIngest == <<normVars, mergeVars, fnVars, stageVars, pairVars, orgVars, collectVars,
              fixVars>>
notFix == <<normVars, mergeVars, fnVars, stageVars, pairVars, orgVars, ingestVars,
           collectVars>>
notCollect == <<normVars, mergeVars, fnVars, stageVars, pairVars, orgVars, ingestVars,
              fixVars>>

\* The value of a key that is not computed yet (no str holds this token).
Unset == <<"UNSET">>

(***************************************************************************)
(* Characters                                                              *)
(***************************************************************************)
LowerLetters ==
    <<"a","b","c","d","e","f","g","h","i","j","k","l","m",
      "n","o","p","q","r","s","t","u","v","w","x","y","z">>

UpperLetters ==
    <<"A","B","C","D","E","F","G","H","I","J","K","L","M",
      "N","O","P","Q","R","S","T","U","V","W","X","Y","Z">>

Digits == <<"0","1","2","3","4","5","6","7","8","9">>

Range(s) == { s[i] : i \in 1..Len(s) }

IndexOf(s, c) == CHOOSE i \in 1..Len(s) : s[i] = c

\* Unicode category Mn: the combining marks NFD separates from a base letter.
IsMn(c) ==
    c \in {"COMBINING_ACUTE", "COMBINING_GRAVE", "COMBINING_DIAERESIS",
           "COMBINING_CEDILLA", "COMBINING_CIRCUMFLEX"}

\* unicodedata.normalize("NFD", c) of one character.
NFDChar(c) ==
    CASE c = "e_acute"      -> <<"e", "COMBINING_ACUTE">>
      [] c = "E_acute"      -> <<"E", "COMBINING_ACUTE">>
      [] c = "e_grave"      -> <<"e", "COMBINING_GRAVE">>
      [] c = "e_diaeresis"  -> <<"e", "COMBINING_DIAERESIS">>
      [] c = "i_diaeresis"  -> <<"i", "COMBINING_DIAERESIS">>
      [] c = "c_cedilla"    -> <<"c", "COMBINING_CEDILLA">>
      [] c = "O_acute"      -> <<"O", "COMBINING_ACUTE">>
      [] c = "o_acute"      -> <<"o", "COMBINING_ACUTE">>
      [] OTHER              -> <<c>>

\* The three classes of ASCII characters normalize_name tells apart.
UpperSet == Range(UpperLetters)
LowerSet == Range(LowerLetters)
DigitSet == Range(Digits)

\* The lower-case letter of each ASCII upper-case letter.
LowerOf == [c \in UpperSet |-> LowerLetters[IndexOf(UpperLetters, c)]]

\* str.lower() of one character.
LowerChar(c) ==
    IF c \in UpperSet THEN LowerOf[c]
    ELSE IF c = "E_acute" THEN "e_acute"
    ELSE IF c = "O_acute" THEN "o_acute"
    ELSE c

\* \s of the re module.
IsSpace(c) == c \in {" ", "\t"}

\* [a-z0-9] of the re module.
IsLowerAlnum(c) == c \in LowerSet \/ c \in DigitSet

\* ord(c), for the characters a normalized key is made of.
OrdOf ==
    [c \in {" "} \cup DigitSet \cup LowerSet |->
        IF c = " " THEN 32
        ELSE IF c \in DigitSet THEN 47 + IndexOf(Digits, c)
        ELSE 96 + IndexOf(LowerLetters, c)]

CodePoint(c) == OrdOf[c]

(***************************************************************************)
(* Strings                                                                 *)
(***************************************************************************)
RECURSIVE Flatten(_)
Flatten(ss) ==
    IF ss = <<>> THEN <<>>
    ELSE IF Len(ss) = 1 THEN ss[1]
    ELSE LET h == Len(ss) \div 2
         IN  Flatten(SubSeq(ss, 1, h)) \o Flatten(SubSeq(ss, h + 1, Len(ss)))

MapSeq(Op(_), s) == [i \in 1..Len(s) |-> Op(s[i])]

\* unicodedata.normalize("NFD", s)
NFD(s) == Flatten(MapSeq(NFDChar, s))

\* A faulty filter that keeps the combining marks, for comparison.
KeepMn(s) == s

\* "".join(c for c in s if unicodedata.category(c) != "Mn")
DropMn(s) == SelectSeq(s, LAMBDA c : ~IsMn(c))

\* s.lower()
Lower(s) == MapSeq(LowerChar, s)

\* re.sub(r"[^a-z0-9\s]", " ", s)
SubNonAlnum(s) ==
    [i \in 1..Len(s) |-> IF IsLowerAlnum(s[i]) \/ IsSpace(s[i]) THEN s[i] ELSE " "]

\* re.sub(r"\s+", " ", s)
CollapseSpaces(s) ==
    LET last == SelectSeq([i \in 1..Len(s) |-> i],
                          LAMBDA i : ~IsSpace(s[i]) \/ i = Len(s) \/ ~IsSpace(s[i + 1]))
    IN  [k \in 1..Len(last) |-> IF IsSpace(s[last[k]]) THEN " " ELSE s[last[k]]]

RECURSIVE LStrip(_)
LStrip(s) == IF s # <<>> /\ IsSpace(Head(s)) THEN LStrip(Tail(s)) ELSE s

RECURSIVE RStrip(_)
RStrip(s) ==
    IF s # <<>> /\ IsSpace(s[Len(s)]) THEN RStrip(SubSeq(s, 1, Len(s) - 1)) ELSE s

\* s.strip()
Strip(s) == RStrip(LStrip(s))

\* s.split(): the maximal runs of non-whitespace characters.
RECURSIVE SplitFrom(_, _)
SplitFrom(s, cur) ==
    IF s = <<>> THEN (IF cur = <<>> THEN <<>> ELSE <<cur>>)
    ELSE IF IsSpace(Head(s))
         THEN (IF cur = <<>> THEN <<>> ELSE <<cur>>) \o SplitFrom(Tail(s), <<>>)
         ELSE SplitFrom(Tail(s), Append(cur, Head(s)))

Split(s) == SplitFrom(s, <<>>)

\* sep.join(parts)
RECURSIVE Join(_, _)
Join(sep, parts) ==
    IF parts = <<>> THEN <<>>
    ELSE IF Len(parts) = 1 THEN parts[1]
    ELSE parts[1] \o sep \o Join(sep, Tail(parts))

\* a <= b for Python str: lexicographic by code point.
RECURSIVE StrLeq(_, _)
StrLeq(a, b) ==
    IF a = <<>> THEN TRUE
    ELSE IF b = <<>> THEN FALSE
    ELSE IF Head(a) = Head(b) THEN StrLeq(Tail(a), Tail(b))
    ELSE CodePoint(Head(a)) < CodePoint(Head(b))

StrLess(a, b) == a # b /\ StrLeq(a, b)

(***************************************************************************)
(* normalize_name (merge.py 47-75)                                         *)
(***************************************************************************)
\* A faulty min, for comparison: always the surname-last form.
MinTakesFirst(a, b) == a

\* min(form1, form2)
PyMin(a, b) == IF StrLeq(a, b) THEN a ELSE b

\* "".join(p[0] for p in ps)
Initials(ps) == [i \in 1..Len(ps) |-> ps[i][1]]

\* The parts of a name: lines 53-58.
NameParts(name) ==
    Split(Strip(CollapseSpaces(SubNonAlnum(Lower(DropMn(NFD(name)))))))

\* Option 1: surname last (lines 65-67).
Form1(parts) ==
    parts[Len(parts)] \o <<" ">> \o Initials(SubSeq(parts, 1, Len(parts) - 1))

\* Option 2: surname first (lines 70-72).
Form2(parts) == parts[1] \o <<" ">> \o Initials(Tail(parts))

\* A faulty key that is the first part alone, for comparison.
normalize_name_first_part(name) ==
    LET parts == NameParts(name)
    IN  IF parts = <<>> THEN <<>> ELSE parts[1]

normalize_name(name) ==
    LET parts == NameParts(name)
    IN  IF parts = <<>> THEN <<>>
        ELSE IF Len(parts) = 1 THEN parts[1]
        ELSE PyMin(Form1(parts), Form2(parts))

(***************************************************************************)
(* Override tables (merge.py 78-178)                                       *)
(***************************************************************************)
\* FN_SUBSTITUTION_BASE (merge.py 80-125), as <<key, value>> pairs in the order of the source.
FN_SUBSTITUTION_BASE ==
    << <<<<"A","n","n","i","c","k"," ","D","e"," ","B","a","r","r","o","s">>,
         <<"A","n","n","i","c","k"," ","O","s","t","h","o","f","f"," ","F","e","r","r","e","i","r","a"," ","d","e"," ","B","a","r","r","o","s">>>>,
       <<<<"B","a","r","b","i","e","r"," ","B","r","u","n","o">>,
         <<"B","r","u","n","o"," ","B","a","r","b","i","e","r">>>>,
       <<<<"B","o","e","m","a","r","e"," ","C","a","t","h","e","r","i","n","e"," ","A","g","n","e_grave","s">>,
         <<"C","a","t","h","e","r","i","n","e"," ","B","o","e","m","a","r","e">>>>,
       <<<<"B","e","n","-","A","r","i"," ","T","a","m","a","r","a">>,
         <<"T","a","m","a","r","a"," ","B","e","n","-","A","r","i">>>>,
       <<<<"C","a","s","s","e","n"," ","C">>,
         <<"C","h","r","i","s","t","o","p","h","e"," ","C","a","s","s","e","n">>>>,
       <<<<"C","o","i","n","t","e"," ","B","e_acute","a","t","r","i","c","e">>,
         <<"B","e_acute","a","t","r","i","c","e"," ","C","o","i","n","t","e">>>>,
       <<<<"C","o","m","b","e","t"," ","E">>,
         <<"E","m","m","a","n","u","e","l"," ","C","o","m","b","e","t">>>>,
       <<<<"C","o","m","t","e"," ","A","d","r","i","e","n">>,
         <<"A","d","r","i","e","n"," ","C","o","m","t","e">>>>,
       <<<<"E","s","p","a","g","n","e"," ","E","t","i","e","n","n","e">>,
         <<"E_acute","t","i","e","n","n","e"," ","E","s","p","a","g","n","e">>>>,
       <<<<"E","t","c","h","a","r","t","-","v","i","n","c","e","n","t"," ","N","a","t","h","a","l","i","e">>,
         <<"N","a","t","h","a","l","i","e"," ","E","t","c","h","a","r","t","-","V","i","n","c","e","n","t">>>>,
       <<<<"F","i","n","o","n"," ","D">>,
         <<"D","o","m","i","n","i","q","u","e"," ","F","i","n","o","n">>>>,
       <<<<"G","e","n","o","v","e","s","e"," ","E">>,
         <<"E","l","i","s","a","b","e","t","t","a"," ","G","e","n","o","v","e","s","e">>>>,
       <<<<"G","o","d","a","r","d"," ","O","l","i","v","i","e","r">>,
         <<"O","l","i","v","i","e","r"," ","G","o","d","a","r","d">>>>,
       <<<<"G","r","a","z","i"," ","F">>,
         <<"F","a","b","i","o"," ","G","r","a","z","i">>>>,
       <<<<"G","a","s","s","e","r"," ","T">>,
         <<"T","h","o","m","a","s"," ","G","a","s","s","e","r">>>>,
       <<<<"G","u","s","d","o","r","f"," ","F","r","a","n","c_cedilla","o","i","s">>,
         <<"F","r","a","n","c_cedilla","o","i","s"," ","G","u","s","d","o","r","f">>>>,
       <<<<"H","a","l","l","e","g","a","t","t","e"," ","S","t","e_acute","p","h","a","n","e">>,
         <<"S","t","e_acute","p","h","a","n","e"," ","H","a","l","l","e","g","a","t","t","e">>>>,
       <<<<"H","o","u","r","c","a","d","e"," ","J","c">>,
         <<"J","e","a","n","-","C","h","a","r","l","e","s"," ","H","o","u","r","c","a","d","e">>>>,
       <<<<"H","o","u","r","c","a","d","e"," ","J","-","C">>,
         <<"J","e","a","n","-","C","h","a","r","l","e","s"," ","H","o","u","r","c","a","d","e">>>>,
       <<<<"H","C"," ","M","e","r","i","e","m">>,
         <<"M","e","r","i","e","m"," ","H","a","m","d","i","-","C","h","e","r","i","f">>>>,
       <<<<"H","a","m","d","i","-","C","h","e","r","i","f"," ","M","e","r","i","e","m">>,
         <<"M","e","r","i","e","m"," ","H","a","m","d","i","-","C","h","e","r","i","f">>>>,
       <<<<"H","a","m","d","i","-","C","h","e","r","i","f"," ","M">>,
         <<"M","e","r","i","e","m"," ","H","a","m","d","i","-","C","h","e","r","i","f">>>>,
       <<<<"H","a","-","D","u","o","n","g"," ","M","i","n","h">>,
         <<"M","i","n","h"," ","H","a","-","D","u","o","n","g">>>>,
       <<<<"L","e","v","r","e","l"," ","H">>,
         <<"H","a","r","o","l","d"," ","L","e","v","r","e","l">>>>,
       <<<<"L","o","u","i","s","-","G","a","e","t","a","n"," ","M","a","r","c"," ","G","i","r","a","u","d","e","t">>,
         <<"L","o","u","i","s","-","G","a","e_diaeresis","t","a","n"," ","G","i","r","a","u","d","e","t">>>>,
       <<<<"M","a","r","t","a"," ","B","e","n","i","t","o">>,
         <<"M","a","r","t","a"," ","B","e","n","i","t","o"," ","G","a","r","z","o","n">>>>,
       <<<<"M","o","n","j","o","n"," ","S">>,
         <<"S","t","e_acute","p","h","a","n","i","e"," ","M","o","n","j","o","n">>>>,
       <<<<"N","g","u","y","e","n"," ","H","o","a","i"," ","S","o","n">>,
         <<"H","o","a","i"," ","S","o","n"," ","N","g","u","y","e","n">>>>,
       <<<<"N","g","u","y","e","n"," ","N","h","a","n"," ","T","h","a","n">>,
         <<"N","h","a","n"," ","T","h","a","n"," ","N","g","u","y","e","n">>>>,
       <<<<"N","g","u","y","e","n"," ","T","r","i","n","h"," ","H","o","a","n","g"," ","A","n","h">>,
         <<"H","o","a","n","g"," ","A","n","h"," ","N","g","u","y","e","n"," ","T","r","i","n","h">>>>,
       <<<<"T","r","i","n","h"," ","N","g","u","y","e","n"," ","H","o","a","n","g"," ","A","n","h">>,
         <<"H","o","a","n","g"," ","A","n","h"," ","N","g","u","y","e","n"," ","T","r","i","n","h">>>>,
       <<<<"T","r","i","n","h"," ","H","o","a","n","g"," ","A","n","h"," ","N","g","u","y","e","n">>,
         <<"H","o","a","n","g"," ","A","n","h"," ","N","g","u","y","e","n"," ","T","r","i","n","h">>>>,
       <<<<"H","o","a","n","g"," ","A","n","h"," ","T","r","i","n","h"," ","N","g","u","y","e","n">>,
         <<"H","o","a","n","g"," ","A","n","h"," ","N","g","u","y","e","n"," ","T","r","i","n","h">>>>,
       <<<<"L","a","b","u","s","s","i","e","r","e"," ","O","l","i","v","i","e","r">>,
         <<"O","l","i","v","i","e","r"," ","L","a","b","u","s","s","i","e","r","e">>>>,
       <<<<"V","a","l","l","e","t"," ","A">>,
         <<"A","m","e","l","i","n","e"," ","V","a","l","l","e","t">>>>,
       <<<<"D","E"," ","L","A","U","R","E","T","I","S"," ","S","i","m","o","n","a">>,
         <<"S","i","m","o","n","a"," ","D","e"," ","L","a","u","r","e","t","i","s">>>>,
       <<<<"E","O","I","N"," ","O"," ","B","r","o","i","n">>,
         <<"E","o","i","n"," ","O_acute"," ","B","r","o","i","n">>>>,
       <<<<"O_acute"," ","B","r","o","i","n"," ","E","o","i","n">>,
         <<"E","o","i","n"," ","O_acute"," ","B","r","o","i","n">>>>,
       <<<<"T","h","u","b","i","n">>,
         <<"C","a","m","i","l","l","e"," ","T","h","u","b","i","n">>>>,
       <<<<"C","a","l","a","s">>,
         <<"G","u","i","l","l","a","u","m","e"," ","C","a","l","a","s">>>>,
       <<<<"F","E","R","R","E","I","R","A"," ","d","a"," ","C","U","N","H","A"," ","R","o","b","e","r","t","o">>,
         <<"R","o","b","e","r","t","o"," ","F","e","r","r","e","i","r","a"," ","d","a"," ","C","u","n","h","a">>>>,
       <<<<"V","o","g","t","-","S","c","h","i","l","b"," ","A","d","r","i","e","n">>,
         <<"A","d","r","i","e","n"," ","V","o","g","t","-","S","c","h","i","l","b">>>>,
       <<<<"M","a","r","c","o","s"," ","A","u","r","e_acute","l","i","o"," ","V","a","s","c","o","n","c","e","l","o","s"," ","F","r","e","i","t","a","s">>,
         <<"M","a","r","c","o","s"," ","A","u","r","e_acute","l","i","o"," ","V","a","s","c","o","n","c","e","l","o","s"," ","d","e"," ","F","r","e","i","t","a","s">>>>,
       <<<<"M","a","r","c","o","s"," ","A","u","r","e","l","i","o"," ","V","a","s","c","o","n","c","e","l","o","s"," ","D","e"," ","F","r","e","i","t","a","s">>,
         <<"M","a","r","c","o","s"," ","A","u","r","e_acute","l","i","o"," ","V","a","s","c","o","n","c","e","l","o","s"," ","d","e"," ","F","r","e","i","t","a","s">>>> >>

\* FN_NORMALIZATION_WHITELIST (merge.py 135-156), as <<key, value>> pairs in the order of the source.
FN_NORMALIZATION_WHITELIST ==
    << <<<<"W","a","i","s","m","a","n"," ","H",".">>,
         <<"w","a","i","s","m","a","n"," ","h","e","n","r","i">>>>,
       <<<<"W","a","i","s","m","a","n"," ","H">>,
         <<"w","a","i","s","m","a","n"," ","h","e","n","r","i">>>>,
       <<<<"H","e","n","r","i","-","D","a","v","i","d"," ","W","a","i","s","m","a","n">>,
         <<"w","a","i","s","m","a","n"," ","h","e","n","r","i">>>>,
       <<<<"W","a","i","s","m","a","n"," ","H","e","n","r","i","-","D","a","v","i","d">>,
         <<"w","a","i","s","m","a","n"," ","h","e","n","r","i">>>>,
       <<<<"W","a","i","s","m","a","n"," ","H","e","n","r","i"," ","D","a","v","i","d">>,
         <<"w","a","i","s","m","a","n"," ","h","e","n","r","i">>>>,
       <<<<"O","l","i","v","i","e","r"," ","P","i","e","r","r","e"," ","S","a","s","s","i">>,
         <<"s","a","s","s","i"," ","o","l","i","v","i","e","r">>>>,
       <<<<"P","i","e","r","r","e"," ","O","l","i","v","i","e","r"," ","S","a","s","s","i">>,
         <<"s","a","s","s","i"," ","o","l","i","v","i","e","r">>>>,
       <<<<"S","a","s","s","i"," ","O","l","i","v","i","e","r">>,
         <<"s","a","s","s","i"," ","o","l","i","v","i","e","r">>>>,
       <<<<"H","o","u","r","c","a","d","e"," ","J",".","C">>,
         <<"h","o","u","r","c","a","d","e"," ","j","e","a","n"," ","c","h","a","r","l","e","s">>>>,
       <<<<"H","o","u","r","c","a","d","e"," ","J",".","C",".">>,
         <<"h","o","u","r","c","a","d","e"," ","j","e","a","n"," ","c","h","a","r","l","e","s">>>>,
       <<<<"H","o","u","r","c","a","d","e"," ","J","e","a","n","-","C","h","a","r","l","e","s">>,
         <<"h","o","u","r","c","a","d","e"," ","j","e","a","n"," ","c","h","a","r","l","e","s">>>>,
       <<<<"H","o","u","r","c","a","d","e"," ","J","e","a","n"," ","C","h","a","r","l","e","s">>,
         <<"h","o","u","r","c","a","d","e"," ","j","e","a","n"," ","c","h","a","r","l","e","s">>>>,
       <<<<"L","o","u","i","s","-","G","a","e_diaeresis","t","a","n"," ","G","i","r","a","u","d","e","t">>,
         <<"g","i","r","a","u","d","e","t"," ","l","o","u","i","s"," ","g","a","e","t","a","n">>>>,
       <<<<"L","o","u","i","s","-","G","a","e","t","a","n"," ","G","i","r","a","u","d","e","t">>,
         <<"g","i","r","a","u","d","e","t"," ","l","o","u","i","s"," ","g","a","e","t","a","n">>>>,
       <<<<"L","o","u","i","s"," ","G","a","e","t","a","n"," ","G","i","r","a","u","d","e","t">>,
         <<"g","i","r","a","u","d","e","t"," ","l","o","u","i","s"," ","g","a","e","t","a","n">>>>,
       <<<<"L","o","u","i","s"," ","G","a","e","t","a","n"," ","M","a","r","c"," ","G","i","r","a","u","d","e","t">>,
         <<"g","i","r","a","u","d","e","t"," ","l","o","u","i","s"," ","g","a","e","t","a","n">>>>,
       <<<<"F","r","a","n","c","k"," ","L","e","c","o","c","q">>,
         <<"l","e","c","o","c","q"," ","f","r","a","n","c","k">>>>,
       <<<<"F","r","a","n","c","k"," ","M","i","c","h","e","l"," ","L","e","c","o","c","q">>,
         <<"l","e","c","o","c","q"," ","f","r","a","n","c","k">>>>,
       <<<<"F","i","s","c","h","-","R","o","m","i","t","o"," ","V","i","v","i","e","n">>,
         <<"v","i","v","i","e","n"," ","f","i","s","c","h"," ","r","o","m","i","t","o">>>>,
       <<<<"V","i","v","i","e","n"," ","F","i","s","c","h","-","R","o","m","i","t","o">>,
         <<"v","i","v","i","e","n"," ","f","i","s","c","h"," ","r","o","m","i","t","o">>>> >>

\* N_SUBSTITUTION_WHITELIST (merge.py 158-178), as <<key, value>> pairs in the order of the source.
N_SUBSTITUTION_WHITELIST ==
    << <<<<"H","o","a","n","g"," ","A","n","h"," ","N","g","u","y","e","n"," ","T","r","i","n","h">>,
         <<<<"N","g","u","y","e","n"," ","T","r","i","n","h">>, <<"H","o","a","n","g"," ","A","n","h">>, <<>>, <<>>, <<>>>>>>,
       <<<<"A","d","r","i","e","n"," ","C","o","m","t","e">>,
         <<<<"C","o","m","t","e">>, <<"A","d","r","i","e","n">>, <<>>, <<>>, <<>>>>>>,
       <<<<"A","d","r","i","e","n"," ","V","o","g","t","-","S","c","h","i","l","b">>,
         <<<<"V","o","g","t","-","S","c","h","i","l","b">>, <<"A","d","r","i","e","n">>, <<>>, <<>>, <<>>>>>>,
       <<<<"T","a","m","a","r","a"," ","B","e","n","-","A","r","i">>,
         <<<<"B","e","n","-","A","r","i">>, <<"T","a","m","a","r","a">>, <<>>, <<>>, <<>>>>>>,
       <<<<"M","a","r","c","o","s"," ","A","u","r","e_acute","l","i","o"," ","V","a","s","c","o","n","c","e","l","o","s"," ","D","e"," ","F","r","e","i","t","a","s">>,
         <<<<"F","r","e","i","t","a","s">>, <<"M","a","r","c","o","s">>, <<"A","u","r","e_acute","l","i","o"," ","V","a","s","c","o","n","c","e","l","o","s"," ","d","e">>, <<>>, <<>>>>>>,
       <<<<"A","n","n","i","c","k"," ","O","s","t","h","o","f","f"," ","F","e","r","r","e","i","r","a"," ","d","e"," ","B","a","r","r","o","s">>,
         <<<<"B","a","r","r","o","s">>, <<"A","n","n","i","c","k">>, <<"O","s","t","h","o","f","f"," ","F","e","r","r","e","i","r","a"," ","d","e">>, <<>>, <<>>>>>>,
       <<<<"R","o","b","e","r","t","o"," ","F","e","r","r","e","i","r","a"," ","d","a"," ","C","u","n","h","a">>,
         <<<<"C","u","n","h","a">>, <<"R","o","b","e","r","t","o">>, <<"F","e","r","r","e","i","r","a"," ","d","a">>, <<>>, <<>>>>>> >>

\* key in d, for a dict given as <<key, value>> pairs.
DictHas(d, k) == \E i \in 1..Len(d) : d[i][1] = k

\* d[key]: the value of the last assignment to the key.
DictGet(d, k) ==
    LET i == CHOOSE j \in 1..Len(d) :
                 d[j][1] = k /\ \A h \in (j + 1)..Len(d) : d[h][1] # k
    IN  d[i][2]

\* re.match(r".+ [A-Z]$", k)
MatchesSurnameInitial(k) ==
    /\ Len(k) >= 3
    /\ k[Len(k)] \in UpperSet
    /\ k[Len(k) - 1] = " "

\* A faulty expansion that adds no key, for comparison.
NoExpansion(base) == base

\* The loop of lines 129-132 over the items of the base table.
RECURSIVE ExpandSubstitution(_)
ExpandSubstitution(base) ==
    IF base = <<>> THEN <<>>
    ELSE LET k == Head(base)[1]
             v == Head(base)[2]
         IN  (IF MatchesSurnameInitial(k)
              THEN << <<k, v>>, <<k \o <<".">>, v>> >>
              ELSE << <<k, v>> >>) \o ExpandSubstitution(Tail(base))

FN_SUBSTITUTION_WHITELIST == ExpandSubstitution(FN_SUBSTITUTION_BASE)

(***************************************************************************)
(* vCards.  The fields of a card are lists of lines, as vobject's          *)
(* card.contents: fn and n hold no line or one, hasattr(card, "fn") is     *)
(* fn # <<>> and card.fn.value is fn[1].  A url line carries its TYPE      *)
(* parameter, the list of tags in the order and case of the input.         *)
(***************************************************************************)
NoContents ==
    [org |-> <<>>, email |-> <<>>, tel |-> <<>>, source |-> <<>>,
     url |-> <<>>, note |-> <<>>, hist |-> <<>>]

VCard(fn, n, contents) == [fn |-> fn, n |-> n, contents |-> contents]

\* vcard.serialize() raises ValidationError: the vCard 3.0 behaviour of
\* vobject requires at least one FN line.
SerializeRaises(vcard) == vcard.fn = <<>>

\* backslashEscape of vobject: \ ; and , get a backslash.
BackslashEscape(s) ==
    Flatten([i \in 1..Len(s) |->
                IF s[i] \in {"\\", ";", ","} THEN <<"\\", s[i]>> ELSE <<s[i]>>])

(***************************************************************************)
(* normalize_fn (merge.py 181-213)                                         *)
(***************************************************************************)
\* A faulty normalize_fn, for comparison: the whitelist is not consulted.
normalize_fn_without_whitelist(vcard) ==
    IF vcard.fn = <<>> THEN <<>> ELSE normalize_name(Strip(vcard.fn[1]))

normalize_fn(vcard) ==
    IF vcard.fn = <<>> THEN <<>>
    ELSE LET raw == Strip(vcard.fn[1])
             whitelist_candidates == <<raw, Strip(raw), CollapseSpaces(Strip(raw))>>
             hits == SelectSeq(whitelist_candidates,
                               LAMBDA c : DictHas(FN_NORMALIZATION_WHITELIST, c))
         IN  IF hits # <<>>
             THEN normalize_name(DictGet(FN_NORMALIZATION_WHITELIST, hits[1]))
             ELSE normalize_name(raw)

(***************************************************************************)
(* merge_vcards (merge.py 216-281)                                         *)
(***************************************************************************)
\* The lines of one field over the cards of a group, in arrival order.
FieldLines(vcards, field_name) ==
    Flatten([i \in 1..Len(vcards) |-> vcards[i].contents[field_name]])

\* add_unique_fields: lines 229-235.
RECURSIVE UniqueFrom(_, _)
UniqueFrom(lines, seen) ==
    IF lines = <<>> THEN <<>>
    ELSE LET val == Strip(Head(lines))
         IN  IF val # <<>> /\ val \notin seen
             THEN <<Head(lines)>> \o UniqueFrom(Tail(lines), seen \cup {val})
             ELSE UniqueFrom(Tail(lines), seen)

\* A faulty union that takes the values of the first card only, for comparison.
add_first_card_fields(vcards, field_name) ==
    UniqueFrom(vcards[1].contents[field_name], {})

add_unique_fields(vcards, field_name) ==
    UniqueFrom(FieldLines(vcards, field_name), {})

\* URLs with their TYPEs: lines 241-252.
RECURSIVE UniqueUrlsFrom(_, _)
UniqueUrlsFrom(lines, url_seen) ==
    IF lines = <<>> THEN <<>>
    ELSE LET val == Strip(Head(lines).value)
             url_type == Head(lines).type
             key == <<val, url_type>>
         IN  IF val # <<>> /\ key \notin url_seen
             THEN <<[value |-> Head(lines).value, type |-> url_type]>>
                      \o UniqueUrlsFrom(Tail(lines), url_seen \cup {key})
             ELSE UniqueUrlsFrom(Tail(lines), url_seen)

merge_urls(vcards) == UniqueUrlsFrom(FieldLines(vcards, "url"), {})

Min(a, b) == IF a <= b THEN a ELSE b

\* The (source, text) pairs of zip(vcards, sources) for one field.
SourcedLines(vcards, srcs, field_name) ==
    Flatten([i \in 1..Min(Len(vcards), Len(srcs)) |->
                [j \in 1..Len(vcards[i].contents[field_name]) |->
                    <<srcs[i], vcards[i].contents[field_name][j]>>]])

\* f"[{source}] {note}"
Attributed(src, note) == <<"[">> \o src \o <<"]", " ">> \o note

\* Lines 255-263 and 269-277.
RECURSIVE AttributedFrom(_, _)
AttributedFrom(pairs, seen) ==
    IF pairs = <<>> THEN <<>>
    ELSE LET note == Strip(Head(pairs)[2])
         IN  IF note # <<>> /\ note \notin seen
             THEN <<Attributed(Head(pairs)[1], note)>>
                      \o AttributedFrom(Tail(pairs), seen \cup {note})
             ELSE AttributedFrom(Tail(pairs), seen)

\* A faulty attribution that keeps every non-blank text, seen or not, for
\* comparison.
merge_notes_all(vcards, srcs, field_name) ==
    LET pairs == SelectSeq(SourcedLines(vcards, srcs, field_name),
                           LAMBDA pr : Strip(pr[2]) # <<>>)
    IN  [q \in 1..Len(pairs) |-> Attributed(pairs[q][1], Strip(pairs[q][2]))]

merge_notes(vcards, srcs, field_name) ==
    AttributedFrom(SourcedLines(vcards, srcs, field_name), {})

\* One line holding "\n".join(notes), or no line.
JoinedLine(notes) == IF notes # <<>> THEN <<Join(<<"\n">>, notes)>> ELSE <<>>

\* A faulty merge that takes the structured name of the first record that has
\* one, for comparison.
merge_vcards_first_n(vcards, srcs) ==
    LET base == vcards[1]
        named == SelectSeq(vcards, LAMBDA c : c.n # <<>>)
    IN  [fn |-> IF base.fn # <<>> THEN <<base.fn[1]>> ELSE <<>>,
         n  |-> IF named # <<>> THEN <<named[1].n[1]>> ELSE <<>>,
         contents |->
            [org    |-> add_unique_fields(vcards, "org"),
             email  |-> add_unique_fields(vcards, "email"),
             tel    |-> add_unique_fields(vcards, "tel"),
             source |-> add_unique_fields(vcards, "source"),
             url    |-> merge_urls(vcards),
             note   |-> JoinedLine(merge_notes(vcards, srcs, "note")),
             hist   |-> JoinedLine(merge_notes(vcards, srcs, "hist"))]]

merge_vcards(vcards, srcs) ==
    LET base == vcards[1]
    IN  [fn |-> IF base.fn # <<>> THEN <<base.fn[1]>> ELSE <<>>,
         n  |-> IF base.n # <<>> THEN <<base.n[1]>> ELSE <<>>,
         contents |->
            [org    |-> add_unique_fields(vcards, "org"),
             email  |-> add_unique_fields(vcards, "email"),
             tel    |-> add_unique_fields(vcards, "tel"),
             source |-> add_unique_fields(vcards, "source"),
             url    |-> merge_urls(vcards),
             note   |-> JoinedLine(merge_notes(vcards, srcs, "note")),
             hist   |-> JoinedLine(merge_notes(vcards, srcs, "hist"))]]

(***************************************************************************)
(* ingest_contacts, group_contacts, merge_all_contacts (merge.py 298-369)  *)
(***************************************************************************)
\* An ingestion that leaves the full name as it is, for comparison.
KeepFN(vcard) == vcard

\* Lines 312-315: the full-name substitution of one card.
SubstituteFN(vcard) ==
    IF vcard.fn # <<>> /\ DictHas(FN_SUBSTITUTION_WHITELIST, Strip(vcard.fn[1]))
    THEN [vcard EXCEPT !.fn[1] = DictGet(FN_SUBSTITUTION_WHITELIST, Strip(vcard.fn[1]))]
    ELSE vcard

\* Line 317 reads vcard.fn of a card that has an N line: AttributeError without FN.
IngestRaises(vcard) == vcard.n # <<>> /\ vcard.fn = <<>>

\* Lines 316-326: the structured-name substitution of one card.
SubstituteN(vcard) ==
    IF vcard.n # <<>> /\ DictHas(N_SUBSTITUTION_WHITELIST, Strip(vcard.fn[1]))
    THEN [vcard EXCEPT !.n[1] = DictGet(N_SUBSTITUTION_WHITELIST, Strip(vcard.fn[1]))]
    ELSE vcard

\* The positions of a list, in order.
Indices(s) == [i \in 1..Len(s) |-> i]

\* A faulty grouping that ignores the override table of keys, for comparison.
group_contacts_without_whitelist(contacts, srcs) ==
    LET n == Min(Len(contacts), Len(srcs))
        keyAt == [i \in 1..n |-> normalize_fn_without_whitelist(contacts[i])]
        keys == { keyAt[i] : i \in 1..n }
        at(k) == SelectSeq([i \in 1..n |-> i], LAMBDA i : keyAt[i] = k)
    IN  [grouped |-> [k \in keys |-> [j \in 1..Len(at(k)) |-> contacts[at(k)[j]]]],
         grouped_sources |-> [k \in keys |-> [j \in 1..Len(at(k)) |-> srcs[at(k)[j]]]]]

\* group_contacts: the two dicts it returns.
group_contacts(contacts, srcs) ==
    LET n == Min(Len(contacts), Len(srcs))
        keyAt == [i \in 1..n |-> normalize_fn(contacts[i])]
        keys == { keyAt[i] : i \in 1..n }
        at(k) == SelectSeq([i \in 1..n |-> i], LAMBDA i : keyAt[i] = k)
    IN  [grouped |-> [k \in keys |-> [j \in 1..Len(at(k)) |-> contacts[at(k)[j]]]],
         grouped_sources |-> [k \in keys |-> [j \in 1..Len(at(k)) |-> srcs[at(k)[j]]]]]

\* sorted(grouped.keys())
RECURSIVE SortedKeys(_)
SortedKeys(S) ==
    IF S = {} THEN <<>>
    ELSE LET m == CHOOSE x \in S : \A y \in S : StrLeq(x, y)
         IN  <<m>> \o SortedKeys(S \ {m})

\* The primary weight of a character in the fr_FR collation: blanks, then
\* punctuation, then digits, then letters whatever their case and accent.
PrimaryWeight(c) ==
    LET b == LowerChar(NFDChar(c)[1])
    IN  IF IsSpace(b) THEN 1
        ELSE IF b \in DigitSet THEN 10 + IndexOf(Digits, b)
        ELSE IF b \in LowerSet THEN 20 + IndexOf(LowerLetters, b)
        ELSE 2

\* The secondary weight: the accent of the character.
SecondaryWeight(c) ==
    IF Len(NFDChar(c)) > 1
    THEN 1 + IndexOf(<<"COMBINING_ACUTE", "COMBINING_GRAVE", "COMBINING_CIRCUMFLEX",
                       "COMBINING_DIAERESIS", "COMBINING_CEDILLA">>, NFDChar(c)[2])
    ELSE 1

\* The tertiary weight: the case of the character.
TertiaryWeight(c) == IF NFDChar(c)[1] \in UpperSet THEN 2 ELSE 1

\* locale.strxfrm(s): the weights of the three levels, level after level.
strxfrm(s) ==
    MapSeq(PrimaryWeight, s) \o <<0>> \o MapSeq(SecondaryWeight, s)
        \o <<0>> \o MapSeq(TertiaryWeight, s)

\* a <= b for two transformed strings.
RECURSIVE WeightsLeq(_, _)
WeightsLeq(a, b) ==
    IF a = <<>> THEN TRUE
    ELSE IF b = <<>> THEN FALSE
    ELSE IF Head(a) = Head(b) THEN WeightsLeq(Tail(a), Tail(b))
    ELSE Head(a) < Head(b)

\* The sort key of line 367.
SortKey(v) == IF v.fn # <<>> THEN strxfrm(v.fn[1]) ELSE <<>>

\* list.sort(key=...): stable. One insertion, after the entries that are not greater.
RECURSIVE InsertSorted(_, _)
InsertSorted(sorted, v) ==
    IF sorted = <<>> THEN <<v>>
    ELSE IF WeightsLeq(SortKey(Head(sorted)), SortKey(v))
         THEN <<Head(sorted)>> \o InsertSorted(Tail(sorted), v)
         ELSE <<v>> \o sorted

\* A faulty sort that leaves the list in the order of the keys, for comparison.
KeyOrder(s) == s

RECURSIVE SortByFN(_)
SortByFN(s) ==
    IF s = <<>> THEN <<>>
    ELSE InsertSorted(SortByFN(SubSeq(s, 1, Len(s) - 1)), s[Len(s)])

merge_all_contacts(g, gs) ==
    LET keys == SortedKeys(DOMAIN g)
    IN  SortByFN([i \in 1..Len(keys) |-> merge_vcards(g[keys[i]], gs[keys[i]])])

(***************************************************************************)
(* SpecMerge: main() of merge.py up to merge_all_contacts.  The input      *)
(* files are read in order; every card read is drawn from the cards of     *)
(* the scenario.                                                           *)
(***************************************************************************)
MaxFiles == 2
MaxCards == 2

\* Cards that differ by their name: without FN, with an FN of punctuation only,
\* with names of the override tables, with the two orders of a plain name.
NameCards ==
    << VCard(<<>>, <<>>,
              [NoContents EXCEPT !.email = <<<<"a","@","x",".","c","o","m">>>>]),
       VCard(<<>>, <<>>,
              [NoContents EXCEPT !.email = <<<<"b","@","y",".","c","o","m">>>>]),
       VCard(<<<<".">>>>, <<>>,
              [NoContents EXCEPT !.org = <<<<"C","I","R","E","D">>>>]),
       VCard(<<<<"W","a","i","s","m","a","n"," ","H",".">>>>, <<>>,
              [NoContents EXCEPT !.email = <<<<"a","@","x",".","c","o","m">>>>]),
       VCard(<<<<"H","e","n","r","i","-","D","a","v","i","d"," ","W","a","i","s","m","a","n">>>>, <<>>,
              [NoContents EXCEPT !.note = <<<<"a","l","u","m","n","u","s">>>>]),
       VCard(<<<<"W","a","i","s","m","a","n"," "," ","H",".">>>>, <<>>,
              [NoContents EXCEPT !.org = <<<<"C","I","R","E","D">>>>]),
       VCard(<<<<"J","e","a","n"," ","D","u","p","o","n","t">>>>, <<>>,
              [NoContents EXCEPT !.email = <<<<"a","@","x",".","c","o","m">>>>]),
       VCard(<<<<"D","u","p","o","n","t"," ","J","e","a","n">>>>, <<>>,
              [NoContents EXCEPT !.email = <<<<"b","@","y",".","c","o","m">>>>]),
       VCard(<<<<"C","o","m","t","e"," ","A","d","r","i","e","n">>>>, <<<<<<"A","d","r","i","e","n">>, <<"C","o","m","t","e">>, <<>>, <<>>, <<>>>>>>,
              NoContents),
       VCard(<<>>, <<<<<<"D","o","e">>, <<"J","o">>, <<>>, <<>>, <<>>>>>>,
              NoContents) >>

\* Cards of one person that differ by their emails, organizations, typed URLs,
\* notes and history.
FieldCards ==
    << VCard(<<<<"J","e","a","n"," ","D","u","p","o","n","t">>>>, <<>>,
              [NoContents EXCEPT !.email = <<<<"a","@","x",".","c","o","m">>, <<"A","@","X",".","c","o","m">>, <<"b","@","y",".","c","o","m">>>>]),
       VCard(<<<<"J","e","a","n"," ","D","u","p","o","n","t">>>>, <<>>,
              [NoContents EXCEPT !.email = <<<<" ","a","@","x",".","c","o","m"," ">>>>,
                           !.org = <<<<"C","I","R","E","D">>>>]),
       VCard(<<<<"D","u","p","o","n","t"," ","J","e","a","n">>>>, <<>>,
              [NoContents EXCEPT !.org = <<<<"c","i","r","e","d">>, <<"C","I","R","E","D">>, <<>>>>,
                           !.email = <<<<>>>>]),
       VCard(<<<<"J","e","a","n"," ","D","u","p","o","n","t">>>>, <<>>,
              [NoContents EXCEPT !.url = <<[value |-> <<"h","t","t","p",":","/","/","u">>, type |-> <<<<"H","A","L">>, <<"W","O","R","K">>>>]>>]),
       VCard(<<<<"J","e","a","n"," ","D","u","p","o","n","t">>>>, <<>>,
              [NoContents EXCEPT !.url = <<[value |-> <<"h","t","t","p",":","/","/","u">>, type |-> <<<<"W","O","R","K">>, <<"H","A","L">>>>]>>]),
       VCard(<<<<"D","u","p","o","n","t"," ","J","e","a","n">>>>, <<>>,
              [NoContents EXCEPT !.url = <<[value |-> <<"h","t","t","p",":","/","/","u">>, type |-> <<<<"h","a","l">>, <<"w","o","r","k">>>>], [value |-> <<"h","t","t","p",":","/","/","u">>, type |-> <<>>]>>]),
       VCard(<<<<"J","e","a","n"," ","D","u","p","o","n","t">>>>, <<>>,
              [NoContents EXCEPT !.url = <<[value |-> <<"h","t","t","p",":","/","/","u">>, type |-> <<<<"H","A","L">>>>], [value |-> <<" ","h","t","t","p",":","/","/","u">>, type |-> <<<<"H","A","L">>, <<"W","O","R","K">>>>]>>]),
       VCard(<<<<"J","e","a","n"," ","D","u","p","o","n","t">>>>, <<>>,
              [NoContents EXCEPT !.note = <<<<"a","l","u","m","n","u","s">>, <<"a","l","u","m","n","u","s"," ">>>>,
                           !.hist = <<<<"m","e","m","b","e","r">>>>]),
       VCard(<<<<"D","u","p","o","n","t"," ","J","e","a","n">>>>, <<>>,
              [NoContents EXCEPT !.note = <<<<"a","l","u","m","n","u","s">>, <<"A","l","u","m","n","u","s">>>>]) >>

\* Cards for the reports on the output: a name that is its own
\* word-reversal, a three-word name and its reversal, which get two keys,
\* and a one-word name.
ReportCards ==
    << VCard(<<<<"L", "i", " ", "L", "i">>>>, <<>>, NoContents),
       VCard(<<<<"A", "n", "n", "e", " ", "M", "a", "r", "i", "e", " ", "B", "o">>>>, <<>>, NoContents),
       VCard(<<<<"B", "o", " ", "M", "a", "r", "i", "e", " ", "A", "n", "n", "e">>>>, <<>>, NoContents),
       VCard(<<<<"S", "a", "c", "h", "s">>>>, <<>>, NoContents) >>

\* Cards named by the keys of the two override tables for two persons:
\* keys of FN_SUBSTITUTION_BASE (lines 98, 99, 105) and keys of
\* FN_NORMALIZATION_WHITELIST (lines 144-151).
TableCards ==
    << VCard(<<<<"H", "o", "u", "r", "c", "a", "d", "e", " ", "J", "c">>>>, <<>>, NoContents),
       VCard(<<<<"H", "o", "u", "r", "c", "a", "d", "e", " ", "J", "-", "C">>>>, <<>>, NoContents),
       VCard(<<<<"L", "o", "u", "i", "s", "-", "G", "a", "e", "t", "a", "n", " ", "M",
                 "a", "r", "c", " ", "G", "i", "r", "a", "u", "d", "e", "t">>>>, <<>>, NoContents),
       VCard(<<<<"H", "o", "u", "r", "c", "a", "d", "e", " ", "J", ".", "C">>>>, <<>>, NoContents),
       VCard(<<<<"H", "o", "u", "r", "c", "a", "d", "e", " ", "J", ".", "C", ".">>>>, <<>>, NoContents),
       VCard(<<<<"H", "o", "u", "r", "c", "a", "d", "e", " ", "J", "e", "a", "n", "-",
                 "C", "h", "a", "r", "l", "e", "s">>>>, <<>>, NoContents),
       VCard(<<<<"H", "o", "u", "r", "c", "a", "d", "e", " ", "J", "e", "a", "n", " ",
                 "C", "h", "a", "r", "l", "e", "s">>>>, <<>>, NoContents),
       VCard(<<<<"L", "o", "u", "i", "s", "-", "G", "a", "e_diaeresis", "t", "a", "n", " ", "G",
                 "i", "r", "a", "u", "d", "e", "t">>>>, <<>>, NoContents),
       VCard(<<<<"L", "o", "u", "i", "s", "-", "G", "a", "e", "t", "a", "n", " ", "G",
                 "i", "r", "a", "u", "d", "e", "t">>>>, <<>>, NoContents),
       VCard(<<<<"L", "o", "u", "i", "s", " ", "G", "a", "e", "t", "a", "n", " ", "G",
                 "i", "r", "a", "u", "d", "e", "t">>>>, <<>>, NoContents),
       VCard(<<<<"L", "o", "u", "i", "s", " ", "G", "a", "e", "t", "a", "n", " ", "M",
                 "a", "r", "c", " ", "G", "i", "r", "a", "u", "d", "e", "t">>>>, <<>>, NoContents) >>

Scenarios == {"names", "fields", "reports", "tables"}

ScenarioCards(sc) ==
    IF sc = "names" THEN NameCards
    ELSE IF sc = "fields" THEN FieldCards
    ELSE IF sc = "reports" THEN ReportCards
    ELSE TableCards

\* The scenarios whose input files have given contents.  "haduong": three
\* files of one card each, the three spellings of one person.  "sources":
\* MaxFiles + 1 files of one or two cards, each of which may be missing,
\* empty or unreadable.
FixedScenarios == {"haduong", "sources"}

HaDuongFiles ==
    << << VCard(<<<<"M", "i", "n", "h", " ", "H", "a", "-", "D", "u", "o", "n", "g">>>>, <<>>,
                [NoContents EXCEPT !.email = <<<<"m", "@", "x", ".", "f", "r">>>>]) >>,
       << VCard(<<<<"H", "a", "-", "D", "u", "o", "n", "g", " ", "M", "i", "n", "h">>>>, <<>>,
                [NoContents EXCEPT !.org = <<<<"C", "I", "R", "E", "D">>>>]) >>,
       << VCard(<<<<"M", ".", " ", "H", "a", "-", "D", "u", "o", "n", "g">>>>, <<>>,
                [NoContents EXCEPT !.note = <<<<"a", "l", "u", "m", "n", "u", "s">>>>]) >> >>

\* The cards of the files of "sources": a name without N, the same name
\* inverted with an N, a name that FN_SUBSTITUTION_WHITELIST rewrites.
SourceCards ==
    << <<NameCards[7], NameCards[4]>>,
       << VCard(<<<<"D", "u", "p", "o", "n", "t", " ", "J", "e", "a", "n">>>>, <<<<<<"D", "u", "p", "o", "n", "t">>, <<"J", "e", "a", "n">>, <<>>, <<>>, <<>>>>>>,
                [NoContents EXCEPT !.org = <<<<"C", "I", "R", "E", "D">>>>]) >>,
       << VCard(<<<<"H", "a", "-", "D", "u", "o", "n", "g", " ", "M", "i", "n", "h">>>>, <<>>,
                [NoContents EXCEPT !.note = <<<<"a", "l", "u", "m", "n", "u", "s">>>>]) >> >>

SourceFiles ==
    [i \in 1..(MaxFiles + 1) |-> SourceCards[((i - 1) % Len(SourceCards)) + 1]]

ScenarioFiles(sc) == IF sc = "haduong" THEN HaDuongFiles ELSE SourceFiles

\* len(INPUT_FILES_NAMES)
NumFiles(sc) == IF sc \in FixedScenarios THEN Len(ScenarioFiles(sc)) ELSE MaxFiles

\* What is at the path of an input file: a file with cards, an empty file,
\* nothing, or a file that open() or read() refuses (rights, encoding).
FileStatuses == {"file", "empty", "missing", "unreadable"}

\* The path of the i-th input file.
FileName(i) == <<UpperLetters[i]>>

\* The names of INPUT_FILES_NAMES, whatever is at their paths; for comparison.
INPUT_FILES_unfiltered == [i \in 1..Len(file_status) |-> i]

\* open(vcf_file) or f.read() raises: FileNotFoundError, PermissionError,
\* UnicodeDecodeError.  ingest_contacts has no handler.
OpenRaises(i) == file_status[i] \in {"missing", "unreadable"}

\* INPUT_FILES: the names for which os.path.isfile holds, in order.
INPUT_FILES ==
    SelectSeq([i \in 1..Len(file_status) |-> i],
              LAMBDA i : file_status[i] # "missing")

\* The cards vobject reads from the i-th file of a fixed scenario.
FileCards(i) ==
    IF file_status[i] = "file" THEN ScenarioFiles(scenario)[i] ELSE <<>>

\* The number of cards ingested from the i-th file.
CardsRead(i) == Cardinality({ k \in 1..Len(sources) : sources[k] = FileName(i) })

\* The loop over the cards of the open file is over.
FileDone ==
    IF fileIdx = 0 THEN TRUE
    ELSE CardsRead(INPUT_FILES[fileIdx]) = Len(FileCards(INPUT_FILES[fileIdx]))

\* The cards that ingest_contacts may read next from the open file.
NextCards ==
    IF scenario \in FixedScenarios
    THEN IF FileDone THEN {}
         ELSE { FileCards(INPUT_FILES[fileIdx])[CardsRead(INPUT_FILES[fileIdx]) + 1] }
    ELSE IF Len(all_contacts) < MaxCards THEN Range(ScenarioCards(scenario)) ELSE {}

\* The output file: absent, or the texts written to it.
NoFile == [exists |-> FALSE, cards |-> <<>>]

MergeIdle ==
    /\ scenario = "none" /\ mpc = "idle" /\ fileIdx = 0
    /\ file_status = <<>> /\ output_file = NoFile
    /\ all_contacts = <<>> /\ sources = <<>>
    /\ grouped = <<>> /\ grouped_sources = <<>> /\ merged_contacts = <<>>
    /\ inverted_pairs = <<>>

MergeInit ==
    /\ scenario \in Scenarios \cup FixedScenarios
    /\ file_status \in IF scenario = "sources"
                      THEN [1..NumFiles(scenario) -> FileStatuses]
                      ELSE {[i \in 1..NumFiles(scenario) |-> "file"]}
    /\ output_file = NoFile
    /\ mpc = "ingest" /\ fileIdx = 0
    /\ all_contacts = <<>> /\ sources = <<>>
    /\ grouped = <<>> /\ grouped_sources = <<>> /\ merged_contacts = <<>>
    /\ inverted_pairs = <<>>

\* ingest_contacts: the next file of input_files is opened and read (lines
\* 306-310).  An exception of open() or read() leaves main.
OpenNextFile ==
    /\ mpc = "ingest"
    /\ fileIdx < Len(INPUT_FILES)
    /\ scenario \in FixedScenarios => FileDone
    /\ fileIdx' = fileIdx + 1
    /\ mpc' = IF OpenRaises(INPUT_FILES[fileIdx + 1]) THEN "raised" ELSE mpc
    /\ UNCHANGED <<scenario, file_status, inverted_pairs, output_file, all_contacts, sources,
                   grouped, grouped_sources, merged_contacts>>
    /\ UNCHANGED notMerge

\* ingest_contacts: one card of the open file (lines 311-328).
IngestCard ==
    /\ mpc = "ingest"
    /\ fileIdx >= 1
    /\ \E card \in NextCards :
          LET vcard == SubstituteFN(card)
          IN  IF IngestRaises(vcard)
              THEN /\ mpc' = "raised"
                   /\ UNCHANGED <<all_contacts, sources>>
              ELSE /\ all_contacts' = Append(all_contacts, SubstituteN(vcard))
                   /\ sources' = Append(sources, FileName(INPUT_FILES[fileIdx]))
                   /\ mpc' = mpc
    /\ UNCHANGED <<scenario, file_status, inverted_pairs, output_file, fileIdx, grouped,
                   grouped_sources, merged_contacts>>
    /\ UNCHANGED notMerge

\* main: group_contacts(all_contacts, sources) (line 513), once
\* ingest_contacts has returned.
GroupContacts ==
    /\ mpc = "ingest"
    /\ scenario \in FixedScenarios => (fileIdx = Len(INPUT_FILES) /\ FileDone)
    /\ LET g == group_contacts(all_contacts, sources)
       IN  /\ grouped' = g.grouped
           /\ grouped_sources' = g.grouped_sources
    /\ mpc' = "grouped"
    /\ UNCHANGED <<scenario, file_status, inverted_pairs, output_file, fileIdx, all_contacts,
                   sources, merged_contacts>>
    /\ UNCHANGED notMerge

\* main: merge_all_contacts(grouped, grouped_sources) (line 514).
MergeAllContacts ==
    /\ mpc = "grouped"
    /\ merged_contacts' = merge_all_contacts(grouped, grouped_sources)
    /\ mpc' = "merged"
    /\ UNCHANGED <<scenario, file_status, inverted_pairs, output_file, fileIdx, all_contacts,
                   sources, grouped, grouped_sources>>
    /\ UNCHANGED notMerge

\* The merged cards before the first one that serialize refuses.
RECURSIVE WritablePrefix(_)
WritablePrefix(cards) ==
    IF cards = <<>> \/ SerializeRaises(Head(cards)) THEN <<>>
    ELSE <<Head(cards)>> \o WritablePrefix(Tail(cards))

\* vcard.serialize() of a merged card: the texts of its FN, ORG, EMAIL and
\* NOTE lines.
SerializeMerged(vcard) ==
    [fn    |-> MapSeq(BackslashEscape, vcard.fn),
     org   |-> MapSeq(BackslashEscape, vcard.contents.org),
     email |-> MapSeq(BackslashEscape, vcard.contents.email),
     note  |-> MapSeq(BackslashEscape, vcard.contents.note)]

\* main: write_merged_contacts(merged_contacts, OUTPUT_FILE) (line 516).  The
\* file is created, then the cards are written one by one; an exception of
\* serialize leaves main with the file as it is.
WriteMergedContacts ==
    /\ mpc = "merged"
    /\ output_file' = [exists |-> TRUE,
                       cards  |-> MapSeq(SerializeMerged, WritablePrefix(merged_contacts))]
    /\ mpc' = IF \E i \in 1..Len(merged_contacts) : SerializeRaises(merged_contacts[i])
              THEN "raised" ELSE "written"
    /\ UNCHANGED <<scenario, file_status, inverted_pairs, fileIdx, all_contacts, sources, grouped,
                   grouped_sources, merged_contacts>>
    /\ UNCHANGED notMerge

\* The FN lines verify_inverted_fn_pairs reads back from the output file: the
\* text after "FN:", stripped (lines 386-390).
FnLines(file) == [i \in 1..Len(file.cards) |-> Strip(file.cards[i].fn[1])]

\* reversed(parts)
Reversed(parts) == [i \in 1..Len(parts) |-> parts[Len(parts) + 1 - i]]

\* invert_name (lines 394-398); None is the empty sequence, which no
\* inverted name is.
invert_name(name) ==
    LET parts == Split(Strip(name))
    IN  IF Len(parts) < 2 THEN <<>> ELSE Join(<<" ">>, Reversed(parts))

\* The loop of lines 400-406 from the i-th line on.
RECURSIVE InvertedPairsFrom(_, _, _)
InvertedPairsFrom(fn_lines, i, seen) ==
    IF i > Len(fn_lines) THEN <<>>
    ELSE LET fn == fn_lines[i]
             inverted == invert_name(fn)
         IN  IF /\ inverted # <<>>
                /\ inverted \in Range(fn_lines)
                /\ <<inverted, fn>> \notin seen
             THEN <<<<fn, inverted>>>>
                      \o InvertedPairsFrom(fn_lines, i + 1,
                                           seen \cup {<<fn, inverted>>, <<inverted, fn>>})
             ELSE InvertedPairsFrom(fn_lines, i + 1, seen)

\* verify_inverted_fn_pairs: the pairs it prints; it returns their number.
verify_inverted_fn_pairs(fn_lines) == InvertedPairsFrom(fn_lines, 1, {})

\* main: the four verifications print their reports (lines 518-521) and
\* main returns: the exit status is 0.
MainReturns ==
    /\ mpc = "written"
    /\ inverted_pairs' = verify_inverted_fn_pairs(FnLines(output_file))
    /\ mpc' = "done"
    /\ UNCHANGED <<scenario, file_status, output_file, fileIdx, all_contacts,
                   sources, grouped, grouped_sources, merged_contacts>>
    /\ UNCHANGED notMerge

MergeNext ==
    \/ OpenNextFile
    \/ IngestCard
    \/ GroupContacts
    \/ MergeAllContacts
    \/ WriteMergedContacts
    \/ MainReturns

(***************************************************************************)
(* SpecFn: normalize_fn applied to two cards, the first with an FN written *)
(* with any whitespace, the second with a key of the override table.       *)
(***************************************************************************)
\* The first whitespace run of a str replaced by ws.
RECURSIVE ReplaceFirstSpace(_, _)
ReplaceFirstSpace(s, ws) ==
    IF s = <<>> THEN <<>>
    ELSE IF IsSpace(Head(s)) THEN ws \o Tail(s)
    ELSE <<Head(s)>> \o ReplaceFirstSpace(Tail(s), ws)

\* The ways an FN is written in a card.
Spellings(k) ==
    { k, <<" ">> \o k \o <<" ">>, ReplaceFirstSpace(k, <<" ", " ">>),
      ReplaceFirstSpace(k, <<"\t">>), <<"\t">> \o ReplaceFirstSpace(k, <<" ", "\t">>) }

WhitelistKeys ==
    { FN_NORMALIZATION_WHITELIST[i][1] : i \in 1..Len(FN_NORMALIZATION_WHITELIST) }

\* Names that are in no override table.
OtherNames ==
    { <<"J","e","a","n"," ","D","u","p","o","n","t">>,
      <<"W","a","i","s","m","a","n">>,
      <<"w","a","i","s","m","a","n"," ","h",".">>,
      <<"H","o","u","r","c","a","d","e"," ","J","-","C">>,
      <<".">> }

FnInputs ==
    {<<>>} \cup { <<s>> : s \in UNION { Spellings(k) : k \in WhitelistKeys \cup OtherNames } }

FnIdle == fnA = <<>> /\ fnB = <<>> /\ keyA = Unset /\ keyB = Unset

FnInit ==
    /\ fnA \in FnInputs
    /\ fnB \in { <<k>> : k \in WhitelistKeys }
    /\ keyA = Unset /\ keyB = Unset

NormalizeFnA ==
    /\ keyA = Unset
    /\ keyA' = normalize_fn(VCard(fnA, <<>>, NoContents))
    /\ UNCHANGED <<fnA, fnB, keyB>>
    /\ UNCHANGED notFn

NormalizeFnB ==
    /\ keyB = Unset
    /\ keyB' = normalize_fn(VCard(fnB, <<>>, NoContents))
    /\ UNCHANGED <<fnA, fnB, keyA>>
    /\ UNCHANGED notFn

FnNext == NormalizeFnA \/ NormalizeFnB

(***************************************************************************)
(* SpecNorm: normalize_name applied to names built from words.             *)
(***************************************************************************)
MaxGiven == 2

Words ==
    { <<"a","b">>, <<"a","c">>, <<"b">>, <<"B","a">>, <<"e_acute","a">>,
      <<"c","-","a">>, <<".">> }

GivenNames == UNION { [1..n -> Words] : n \in 0..MaxGiven }

SurnameLast  == Join(<<" ">>, Append(given, surname))
SurnameFirst == Join(<<" ">>, <<surname>> \o given)
SurnameComma == IF given = <<>> THEN surname
                ELSE surname \o <<",", " ">> \o Join(<<" ">>, given)

NormIdle ==
    /\ given = <<>> /\ surname = <<>>
    /\ kLast = Unset /\ kFirst = Unset /\ kComma = Unset /\ kTwice = Unset

NormInit ==
    /\ given \in GivenNames
    /\ surname \in Words
    /\ kLast = Unset /\ kFirst = Unset /\ kComma = Unset /\ kTwice = Unset

NormalizeSurnameLast ==
    /\ kLast = Unset
    /\ kLast' = normalize_name(SurnameLast)
    /\ UNCHANGED <<given, surname, kFirst, kComma, kTwice>>
    /\ UNCHANGED notNorm

NormalizeSurnameFirst ==
    /\ kFirst = Unset
    /\ kFirst' = normalize_name(SurnameFirst)
    /\ UNCHANGED <<given, surname, kLast, kComma, kTwice>>
    /\ UNCHANGED notNorm

NormalizeSurnameComma ==
    /\ kComma = Unset
    /\ kComma' = normalize_name(SurnameComma)
    /\ UNCHANGED <<given, surname, kLast, kFirst, kTwice>>
    /\ UNCHANGED notNorm

NormalizeAgain ==
    /\ kLast # Unset
    /\ kTwice = Unset
    /\ kTwice' = normalize_name(kLast)
    /\ UNCHANGED <<given, surname, kLast, kFirst, kComma>>
    /\ UNCHANGED notNorm

NormNext ==
    \/ NormalizeSurnameLast
    \/ NormalizeSurnameFirst
    \/ NormalizeSurnameComma
    \/ NormalizeAgain

(***************************************************************************)
(* 4_Clean/clean.py: the processor of the cleaning stage.                  *)
(*                                                                         *)
(* A card of the stage is a record: fn (zero or one line), email and url   *)
(* (the values of the lines, in order) and org (the values of the ORG      *)
(* lines).  vobject gives an ORG line read from text a list of strings as  *)
(* value; an assignment org.value = s makes it a str.  keys holds the keys  *)
(* of vcard.contents among email, url and org: vobject makes the key when   *)
(* the first line of that name is added, so that a card read from text has *)
(* the keys of the lines it has.                                           *)
(***************************************************************************)
StageCard(fn, email, url, org) ==
    [fn |-> fn, email |-> email, url |-> url, org |-> org,
     keys |-> (IF email # <<>> THEN {"email"} ELSE {})
                \cup (IF url # <<>> THEN {"url"} ELSE {})
                \cup (IF org # <<>> THEN {"org"} ELSE {})]

\* if not vcard.contents[name]: del vcard.contents[name]
DelIfEmpty(vcard, name) ==
    IF vcard[name] = <<>> THEN [vcard EXCEPT !.keys = @ \ {name}] ELSE vcard

\* The value of an ORG line: a list of str, or a str (items has one element).
OrgList(items) == [kind |-> "list", items |-> items]
OrgStr(text)   == [kind |-> "str", items |-> <<text>>]

\* s.startswith(p)
StartsWith(s, p) == Len(s) >= Len(p) /\ SubSeq(s, 1, Len(p)) = p

\* sub in s
Contains(s, sub) ==
    \E i \in 1..(Len(s) - Len(sub) + 1) : SubSeq(s, i, i + Len(sub) - 1) = sub

\* list.remove(x): the first element equal to x goes.
RECURSIVE ListRemove(_, _)
ListRemove(list, x) ==
    IF list = <<>> THEN <<>>
    ELSE IF Head(list) = x THEN Tail(list)
    ELSE <<Head(list)>> \o ListRemove(Tail(list), x)

\* for x in to_remove: list.remove(x)
RECURSIVE RemoveEach(_, _)
RemoveEach(list, to_remove) ==
    IF to_remove = <<>> THEN list
    ELSE RemoveEach(ListRemove(list, Head(to_remove)), Tail(to_remove))

\* The lines appended to the *_to_remove list of a de-duplication loop:
\* keys[i] is the normalized value of lines[i], seen the set of keys met.
RECURSIVE DuplicateLines(_, _, _)
DuplicateLines(lines, keys, seen) ==
    IF lines = <<>> THEN <<>>
    ELSE IF Head(keys) \in seen
         THEN <<Head(lines)>> \o DuplicateLines(Tail(lines), Tail(keys), seen)
         ELSE DuplicateLines(Tail(lines), Tail(keys), seen \cup {Head(keys)})

OBSOLETE_EMAIL_DOMAINS ==
    { <<"c", "i", "r", "e", "d", ".", "f", "r">>,
      <<"c", "e", "n", "t", "r", "e", "-", "c", "i", "r", "e", "d", ".", "f", "r">>,
      <<"s", "e", "r", "v", "i", "c", "e", "s", ".", "c", "n", "r", "s", ".", "f", "r">> }

\* re.search(rf"(@|mailto:[^\s@]*@){domain}", email_str): both branches of
\* the pattern end with "@" followed by the domain, and the first branch is
\* that text alone, so the search succeeds exactly when it occurs.
is_obsolete_email(email_value) ==
    LET email_str == Lower(email_value)
    IN  \/ \E domain \in OBSOLETE_EMAIL_DOMAINS :
              Contains(email_str, <<"@">> \o Lower(domain))
        \/ StartsWith(email_str, <<"c", "o", "m", "m", "u", "n", "i", "c", "a", "t", "i", "o", "n", "-",
                                   "c", "i", "r", "e", "d">>)

remove_obsolete_emails(vcard) ==
    IF "email" \notin vcard.keys THEN vcard
    ELSE LET emails_to_remove == SelectSeq(vcard.email, is_obsolete_email)
         IN  DelIfEmpty([vcard EXCEPT !.email = RemoveEach(vcard.email, emails_to_remove)],
                        "email")

deduplicate_emails(vcard) ==
    IF "email" \notin vcard.keys THEN vcard
    ELSE LET keys == [i \in 1..Len(vcard.email) |-> Lower(Strip(vcard.email[i]))]
             emails_to_remove == DuplicateLines(vcard.email, keys, {})
         IN  DelIfEmpty([vcard EXCEPT !.email = RemoveEach(vcard.email, emails_to_remove)],
                        "email")

\* The characters that end a URL in find_urls: \s ; , ' " < >
UrlStop == {" ", "\t", ";", ",", "'", "\"", "<", ">"}

\* s has the text p at index i.
HasAt(s, i, p) == i + Len(p) - 1 <= Len(s) /\ SubSeq(s, i, i + Len(p) - 1) = p

\* The length of "http://" or "https://" if s has it at index i, else 0.
SchemeLen(s, i) ==
    IF HasAt(s, i, <<"h", "t", "t", "p", ":", "/", "/">>) THEN 7
    ELSE IF HasAt(s, i, <<"h", "t", "t", "p", "s", ":", "/", "/">>) THEN 8
    ELSE 0

\* The last index of the run of characters outside stop that starts at i.
RunEnd(s, i, stop) ==
    LET stops == { k \in (i + 1)..Len(s) : s[k] \in stop }
    IN  IF stops = {} THEN Len(s)
        ELSE (CHOOSE m \in stops : \A o \in stops : m <= o) - 1

\* re.findall(r'https?://[^\s;,\'"<>]+', text) from index i on.
RECURSIVE FindUrlsFrom(_, _)
FindUrlsFrom(s, i) ==
    LET UrlAt(k) == /\ SchemeLen(s, k) > 0
                    /\ k + SchemeLen(s, k) <= Len(s)
                    /\ s[k + SchemeLen(s, k)] \notin UrlStop
        found == { k \in i..Len(s) : UrlAt(k) }
    IN  IF found = {} THEN <<>>
        ELSE LET k == CHOOSE m \in found : \A o \in found : m <= o
                 e == RunEnd(s, k + SchemeLen(s, k), UrlStop)
             IN  <<SubSeq(s, k, e)>> \o FindUrlsFrom(s, e + 1)

find_urls(text) == FindUrlsFrom(text, 1)

\* url.rstrip(".,;")
RECURSIVE RStripPunct(_)
RStripPunct(url) ==
    IF url # <<>> /\ url[Len(url)] \in {".", ",", ";"}
    THEN RStripPunct(SubSeq(url, 1, Len(url) - 1))
    ELSE url

\* urlparse(url).netloc is not empty: something other than / ? # follows
\* the two slashes.
HasNetloc(url) ==
    LET k == SchemeLen(url, 1)
    IN  k > 0 /\ Len(url) > k /\ url[k + 1] \notin {"/", "?", "#"}

\* url_available: answering is the set of URLs whose server answers the
\* request with status 200 or 999; every other status, a timeout and every
\* error give False.
url_available(url, answering) ==
    IF Contains(url, <<"u", "s", "e", "r", "=", "a", "b", "c">>) THEN FALSE
    ELSE IF Contains(url, <<"1", "2", "3", "4", "-", "5", "6", "7", "8">>) THEN FALSE
    ELSE IF Contains(url, <<"l", "i", "n", "k", "e", "d", "i", "n", ".", "c", "o", "m">>) THEN TRUE
    ELSE HasNetloc(RStripPunct(url)) /\ RStripPunct(url) \in answering

\* A faulty removal that leaves the key of an emptied list in place, for
\* comparison.
remove_dead_urls_keep_key(vcard, answering) ==
    LET Dead(value) ==
            \E j \in 1..Len(find_urls(value)) :
                ~url_available(find_urls(value)[j], answering)
        urls_to_remove == SelectSeq(vcard.url, Dead)
    IN  [vcard EXCEPT !.url = RemoveEach(vcard.url, urls_to_remove)]

remove_dead_urls(vcard, answering) ==
    IF "url" \notin vcard.keys THEN vcard
    ELSE LET Dead(value) ==
                 \E j \in 1..Len(find_urls(value)) :
                     ~url_available(find_urls(value)[j], answering)
             urls_to_remove == SelectSeq(vcard.url, Dead)
         IN  DelIfEmpty([vcard EXCEPT !.url = RemoveEach(vcard.url, urls_to_remove)], "url")

\* repr(s) of a str: double quotes when s has ' and no ", else single
\* quotes with ' escaped; a backslash is doubled and a tab written \t.
PyRepr(s) ==
    LET dq == Contains(s, <<"'">>) /\ ~Contains(s, <<"\"">>)
        q  == IF dq THEN "\"" ELSE "'"
        Esc(c) == IF c = "\\" THEN <<"\\", "\\">>
                  ELSE IF c = "\t" THEN <<"\\", "t">>
                  ELSE IF c = q THEN <<"\\", c>>
                  ELSE <<c>>
    IN  <<q>> \o Flatten([i \in 1..Len(s) |-> Esc(s[i])]) \o <<q>>

\* str(org.value)
PyStr(value) ==
    IF value.kind = "str" THEN value.items[1]
    ELSE <<"[">> \o Join(<<",", " ">>, MapSeq(PyRepr, value.items)) \o <<"]">>

\* The letters outside ASCII that the model writes as tokens.
AccentedLetters ==
    {"e_acute", "E_acute", "e_grave", "e_diaeresis", "i_diaeresis",
     "c_cedilla", "O_acute", "o_acute"}

\* \w of the re module.
IsWordChar(c) ==
    c \in LowerSet \/ c \in UpperSet \/ c \in DigitSet \/ c = "_"
        \/ c \in AccentedLetters

patterns_to_replace ==
    << <<"c", "e", "n", "t", "r", "e", " ", "i", "n", "t", "e", "r", "n", "a",
         "t", "i", "o", "n", "a", "l", " ", "d", "e", " ", "r", "e", "c", "h",
         "e", "r", "c", "h", "e", " ", "s", "u", "r", " ", "l", "'", "e", "n",
         "v", "i", "r", "o", "n", "n", "e", "m", "e", "n", "t", " ", "e", "t",
         " ", "l", "e", " ", "d", "e_acute", "v", "e", "l", "o", "p", "p", "e", "m",
         "e", "n", "t">>,
       <<"c", "e", "n", "t", "r", "e", " ", "i", "n", "t", "e", "r", "n", "a",
         "t", "i", "o", "n", "a", "l", " ", "d", "e", " ", "r", "e", "c", "h",
         "e", "r", "c", "h", "e", " ", "s", "u", "r", " ", "l", "'", "e", "n",
         "v", "i", "r", "o", "n", "n", "e", "m", "e", "n", "t", " ", "e", "t",
         " ", "l", "e", " ", "d", "e", "v", "e", "l", "o", "p", "p", "e", "m",
         "e", "n", "t">>,
       <<"C", "e", "n", "t", "r", "e", " ", "I", "n", "t", "e", "r", "n", "a",
         "t", "i", "o", "n", "a", "l", " ", "d", "e", " ", "R", "e", "c", "h",
         "e", "r", "c", "h", "e", " ", "s", "u", "r", " ", "l", "'", "E", "n",
         "v", "i", "r", "o", "n", "n", "e", "m", "e", "n", "t", " ", "e", "t",
         " ", "l", "e", " ", "D", "e_acute", "v", "e", "l", "o", "p", "p", "e", "m",
         "e", "n", "t">>,
       <<"C", "e", "n", "t", "r", "e", " ", "I", "n", "t", "e", "r", "n", "a",
         "t", "i", "o", "n", "a", "l", " ", "d", "e", " ", "R", "e", "c", "h",
         "e", "r", "c", "h", "e", " ", "s", "u", "r", " ", "l", "'", "E", "n",
         "v", "i", "r", "o", "n", "n", "e", "m", "e", "n", "t", " ", "e", "t",
         " ", "l", "e", " ", "D", "e", "v", "e", "l", "o", "p", "p", "e", "m",
         "e", "n", "t">> >>

\* The pattern \b<name>\b matches at index i, letter case ignored.
MatchesName(s, i, name) ==
    LET j == i + Len(name) - 1
    IN  /\ j <= Len(s)
        /\ (i = 1 \/ ~IsWordChar(s[i - 1]))
        /\ (j = Len(s) \/ ~IsWordChar(s[j + 1]))
        /\ Lower(SubSeq(s, i, j)) = Lower(name)

\* re.sub(rf"\b{name}\b", "CIRED", s, flags=re.IGNORECASE) from index i on.
RECURSIVE SubNameFrom(_, _, _)
SubNameFrom(s, i, name) ==
    LET found == { k \in i..Len(s) : MatchesName(s, k, name) }
    IN  IF found = {} THEN SubSeq(s, i, Len(s))
        ELSE LET k == CHOOSE m \in found : \A o \in found : m <= o
             IN  SubSeq(s, i, k - 1) \o <<"C", "I", "R", "E", "D">>
                     \o SubNameFrom(s, k + Len(name), name)

\* The first index from i on that holds no whitespace (Len(s) + 1 if none).
RECURSIVE SkipSpaces(_, _)
SkipSpaces(s, i) ==
    IF i <= Len(s) /\ IsSpace(s[i]) THEN SkipSpaces(s, i + 1) ELSE i

\* The index after a match of \s*\(\s*CIRED\s*\)\s* that starts at i, or 0.
ParenMatchEnd(s, i) ==
    LET a == SkipSpaces(s, i)
        b == SkipSpaces(s, a + 1)
        c == SkipSpaces(s, b + 5)
    IN  IF /\ a <= Len(s) /\ s[a] = "("
           /\ HasAt(s, b, <<"C", "I", "R", "E", "D">>)
           /\ c <= Len(s) /\ s[c] = ")"
        THEN SkipSpaces(s, c + 1)
        ELSE 0

\* re.sub(r'\s*\(\s*CIRED\s*\)\s*', ' CIRED', s) from index i on.
RECURSIVE SubParenFrom(_, _)
SubParenFrom(s, i) ==
    LET found == { k \in i..Len(s) : ParenMatchEnd(s, k) > 0 }
    IN  IF found = {} THEN SubSeq(s, i, Len(s))
        ELSE LET k == CHOOSE m \in found : \A o \in found : m <= o
             IN  SubSeq(s, i, k - 1) \o <<" ", "C", "I", "R", "E", "D">>
                     \o SubParenFrom(s, ParenMatchEnd(s, k))

\* for pattern in patterns_to_replace: org_value = re.sub(...)
RECURSIVE SubNames(_, _)
SubNames(s, patterns) ==
    IF patterns = <<>> THEN s
    ELSE SubNames(SubNameFrom(s, 1, Head(patterns)), Tail(patterns))

useAcronym(org_value) ==
    Strip(CollapseSpaces(SubParenFrom(SubNames(org_value, patterns_to_replace), 1)))

\* The first loop of deduplicate_CIRED_ORG: the acronym replaces the value
\* of a line when it differs from the stripped str() of the value.
Acronymized(value) ==
    LET original_value == Strip(PyStr(value))
        shorter_value  == useAcronym(original_value)
    IN  IF shorter_value # original_value THEN OrgStr(shorter_value) ELSE value

\* The list under the key org after the two loops of deduplicate_CIRED_ORG.
DeduplicatedOrgs(vcard) ==
    LET orgs == MapSeq(Acronymized, vcard.org)
        keys == [i \in 1..Len(orgs) |-> Lower(Strip(PyStr(orgs[i])))]
        orgs_to_remove == DuplicateLines(orgs, keys, {})
    IN  RemoveEach(orgs, orgs_to_remove)

\* logging.error("Empty org field after dedup stage ...") is called.
OrgErrorLogged(vcard) == "org" \in vcard.keys /\ DeduplicatedOrgs(vcard) = <<>>

deduplicate_CIRED_ORG(vcard) ==
    IF "org" \notin vcard.keys THEN vcard
    ELSE DelIfEmpty([vcard EXCEPT !.org = DeduplicatedOrgs(vcard)], "org")

\* The text of an ORG value: its fields, escaped, joined by ";".  The
\* fields of a list are its items, and those of a str its characters.
SerializeOrg(value) ==
    LET fields == IF value.kind = "list" THEN value.items
                  ELSE [i \in 1..Len(value.items[1]) |-> <<value.items[1][i]>>]
    IN  Join(<<";">>, MapSeq(BackslashEscape, fields))

\* vcard.serialize(): the text of every line of the card.
Serialize(vcard) ==
    [fn    |-> MapSeq(BackslashEscape, vcard.fn),
     email |-> MapSeq(BackslashEscape, vcard.email),
     url   |-> MapSeq(BackslashEscape, vcard.url),
     org   |-> MapSeq(SerializeOrg, vcard.org)]

\* clean(vcard, args): what it raises and the state it leaves the card in.
\* The card is serialized for the debug log before and after the four steps.
clean(vcard, answering) ==
    IF SerializeRaises(vcard)
    THEN [raised |-> TRUE, vcard |-> vcard]
    ELSE LET cleaned ==
                 deduplicate_CIRED_ORG(
                     remove_dead_urls(
                         deduplicate_emails(remove_obsolete_emails(vcard)),
                         answering))
         IN  [raised |-> SerializeRaises(cleaned), vcard |-> cleaned]

(***************************************************************************)
(* utils.py: ingest_vcards, process_vcards, output_vcards, and main() of   *)
(* 4_Clean/clean.py.                                                       *)
(***************************************************************************)
\* args.limit: <<>> is None, <<n>> the integer n.
NoLimit == <<>>

\* vcards[:n]
PySliceTo(s, n) ==
    IF n >= 0 THEN SubSeq(s, 1, Min(n, Len(s)))
    ELSE SubSeq(s, 1, IF Len(s) + n > 0 THEN Len(s) + n ELSE 0)

\* A faulty selection, for comparison: the last card is left out.
cards_but_last(cards, lim) == SubSeq(cards, 1, Len(cards) - 1)

\* cards_to_process = vcards[: args.limit] if args.limit else vcards
cards_to_process(cards, lim) ==
    IF lim # NoLimit /\ lim[1] # 0 THEN PySliceTo(cards, lim[1]) ELSE cards

\* readComponents raises ParseError at a card it cannot parse.
IngestRaisesParseError(text) == \E i \in 1..Len(text) : ~text[i].parses

(***************************************************************************)
(* SpecStage: the cleaning stage run on an input of up to MaxInput cards.  *)
(***************************************************************************)
MaxInput == 2

\* The cards of the input text: parses tells whether vobject can parse the
\* card, vcard is the object it makes of it.
RawCards ==
    { [parses |-> TRUE,
       vcard  |-> StageCard(<<<<"J", "e", "a", "n", " ", "D", "u", "p", "o", "n", "t">>>>,
                            <<<<"j", "e", "a", "n", "@", "c", "i", "r", "e", "d", ".", "f", "r">>, <<"J", "e", "a", "n", "@", "X", ".", "o", "r", "g">>, <<"j", "e", "a", "n", "@", "x", ".", "o", "r", "g">>>>,
                            <<<<"h", "t", "t", "p", ":", "/", "/", "u", ".", "o", "r", "g", "/", "a">>>>,
                            <<OrgList(<<<<"C", "I", "R", "E", "D">>>>), OrgList(<<<<"c", "i", "r", "e", "d">>>>)>>)],
      [parses |-> TRUE,
       vcard  |-> StageCard(<<>>,
                            <<<<"o", "l", "d", "@", "c", "e", "n", "t", "r", "e", "-", "c", "i", "r",
                                "e", "d", ".", "f", "r">>, <<"a", "@", "x", ".", "c", "o", "m">>>>,
                            <<>>, <<>>)],
      [parses |-> TRUE,
       vcard  |-> StageCard(<<<<"L", "i", " ", "J", "u", "n">>>>,
                            <<<<"c", "o", "m", "m", "u", "n", "i", "c", "a", "t", "i", "o", "n", "-",
                                "c", "i", "r", "e", "d", "@", "x", ".", "o", "r", "g">>>>,
                            <<<<"h", "t", "t", "p", "s", ":", "/", "/", "l", "i", "n", "k", "e", "d",
                                "i", "n", ".", "c", "o", "m", "/", "i", "n", "/", "l", "j">>, <<"s", "e", "e", " ", "h", "t", "t", "p", ":", "/", "/", "h", ".", "o",
                                                              "r", "g", ".">>,
                              <<"h", "t", "t", "p", ":", "/", "/", "u", ".", "o", "r", "g", "/", "b",
                                "?", "u", "s", "e", "r", "=", "a", "b", "c">>>>,
                            <<OrgList(<<<<"C", "e", "n", "t", "r", "e", " ", "i", "n", "t", "e", "r", "n", "a",
                                          "t", "i", "o", "n", "a", "l", " ", "d", "e", " ", "r", "e", "c", "h",
                                          "e", "r", "c", "h", "e", " ", "s", "u", "r", " ", "l", "'", "e", "n",
                                          "v", "i", "r", "o", "n", "n", "e", "m", "e", "n", "t", " ", "e", "t",
                                          " ", "l", "e", " ", "d", "e_acute", "v", "e", "l", "o", "p", "p", "e", "m",
                                          "e", "n", "t", " ", "(", "C", "I", "R", "E", "D", ")">>>>),
                              OrgList(<<<<"C", "I", "R", "E", "D">>, <<"P", "a", "r", "i", "s">>>>)>>)],
      [parses |-> FALSE,
       vcard  |-> StageCard(<<>>, <<>>, <<>>, <<>>)] }

Limits == {NoLimit, <<0>>, <<1>>, <<2>>, <<-1>>}

RECURSIVE SeqsUpTo(_, _)
SeqsUpTo(S, n) ==
    IF n = 0 THEN {<<>>}
    ELSE SeqsUpTo(S, n - 1)
             \cup { Append(s, x) : s \in { t \in SeqsUpTo(S, n - 1) : Len(t) = n - 1 }, x \in S }

StageIdle ==
    /\ spc = "idle" /\ stdin = <<>> /\ limit = NoLimit
    /\ vcard_list = <<>> /\ processed_cards = <<>> /\ error_log = <<>>
    /\ stdout = <<>>

StageInit ==
    /\ spc = "start"
    /\ stdin \in SeqsUpTo(RawCards, MaxInput)
    /\ limit \in Limits
    /\ vcard_list = <<>> /\ processed_cards = <<>> /\ error_log = <<>>
    /\ stdout = <<>>

\* main: vcards = ingest_vcards(sys.stdin).  A ParseError leaves main.
IngestVcards ==
    /\ spc = "start"
    /\ IF IngestRaisesParseError(stdin)
       THEN /\ spc' = "aborted"
            /\ UNCHANGED vcard_list
       ELSE /\ spc' = "processing"
            /\ vcard_list' = [i \in 1..Len(stdin) |-> stdin[i].vcard]
    /\ UNCHANGED <<stdin, limit, processed_cards, error_log, stdout>>
    /\ UNCHANGED notStage

\* process_vcards: one turn of the loop (lines 102-114).  processed_cards
\* holds references: entry k is the index in vcard_list of the object appended.
\* clean changes the card in place and returns it, so that the result and
\* the card passed after an exception are the same object.
ProcessCard ==
    /\ spc = "processing"
    /\ Len(processed_cards) < Len(cards_to_process(vcard_list, limit))
    /\ LET i == Len(processed_cards) + 1
           checked == UNION { { RStripPunct(url) : url \in Range(find_urls(vcard_list[i].url[u])) } :
                                u \in 1..Len(vcard_list[i].url) }
       IN  \E answering \in SUBSET { url \in checked : HasNetloc(url) } :
               LET r == clean(vcard_list[i], answering)
               IN  /\ vcard_list' = [vcard_list EXCEPT ![i] = r.vcard]
                   /\ error_log' = IF r.raised THEN Append(error_log, i)
                                   ELSE error_log
                   /\ processed_cards' = Append(processed_cards, i)
    /\ UNCHANGED <<spc, stdin, limit, stdout>>
    /\ UNCHANGED notStage

\* process_vcards returns: at once without cards (lines 91-93), else after
\* the loop (lines 116-117).
ProcessingComplete ==
    /\ spc = "processing"
    /\ Len(processed_cards) = Len(cards_to_process(vcard_list, limit))
    /\ spc' = "output"
    /\ UNCHANGED <<stdin, limit, vcard_list, processed_cards, error_log, stdout>>
    /\ UNCHANGED notStage

\* output_vcards: one turn of the loop.  An exception of serialize leaves
\* main.
OutputCard ==
    /\ spc = "output"
    /\ Len(stdout) < Len(processed_cards)
    /\ LET vcard == vcard_list[processed_cards[Len(stdout) + 1]]
       IN  IF SerializeRaises(vcard)
           THEN /\ spc' = "aborted"
                /\ UNCHANGED stdout
           ELSE /\ stdout' = Append(stdout, Serialize(vcard))
                /\ spc' = spc
    /\ UNCHANGED <<stdin, limit, vcard_list, processed_cards, error_log>>
    /\ UNCHANGED notStage

\* main: return 0
StageReturn ==
    /\ spc = "output"
    /\ Len(stdout) = Len(processed_cards)
    /\ spc' = "done"
    /\ UNCHANGED <<stdin, limit, vcard_list, processed_cards, error_log, stdout>>
    /\ UNCHANGED notStage

StageNext ==
    \/ IngestVcards
    \/ ProcessCard
    \/ ProcessingComplete
    \/ OutputCard
    \/ StageReturn

(***************************************************************************)
(* SpecPair: normalize_name applied to two names.                          *)
(***************************************************************************)
\* Spellings of three persons, with and without accents, in upper and lower
\* case, composed and decomposed, of one word and of several.
PairNames ==
    { <<"E_acute", "m", "i", "l", "e", " ", "D", "u", "r", "a", "n", "d">>,
      <<"e", "m", "i", "l", "e", " ", "d", "u", "r", "a", "n", "d">>,
      <<"E", "M", "I", "L", "E", " ", "D", "U", "R", "A", "N", "D">>,
      <<"E", "COMBINING_ACUTE">> \o <<"m", "i", "l", "e", " ", "D", "u", "r", "a", "n", "d">>,
      <<"E", "m", "i", "l", "e", " ", "D", "u", "r", "a", "n", "t">>,
      <<"S", "a", "c", "h", "s">>,
      <<"S", "A", "C", "H", "S">>,
      <<"S", "a", "c", "h", "e_acute">>,
      <<"S", "a", "c", "h", "s", " ", "I", "g", "n", "a", "c", "y">>,
      <<"I", "g", "n", "a", "c", "y", " ", "S", "a", "c", "h", "s">>,
      <<"S", "a", "c", "h", "s", " ", "I">>,
      <<"S", "a", "c", "h", "s", "-", "I", "g", "n", "a", "c", "y">>,
      <<"i", "g", "n", "a", "c", "y">>,
      <<"I", ".">>,
      <<>> }

PairIdle ==
    /\ nameL = <<>> /\ nameR = <<>> /\ keyL = Unset /\ keyR = Unset

PairInit ==
    /\ nameL \in PairNames /\ nameR \in PairNames
    /\ keyL = Unset /\ keyR = Unset

NormalizeLeft ==
    /\ keyL = Unset
    /\ keyL' = normalize_name(nameL)
    /\ UNCHANGED <<nameL, nameR, keyR>>
    /\ UNCHANGED notPair

NormalizeRight ==
    /\ keyR = Unset
    /\ keyR' = normalize_name(nameR)
    /\ UNCHANGED <<nameL, nameR, keyL>>
    /\ UNCHANGED notPair

PairNext ==
    \/ NormalizeLeft
    \/ NormalizeRight

(***************************************************************************)
(* SpecOrg: deduplicate_CIRED_ORG applied to a card built line by line,    *)
(* as create_test_vcard of test_org_dedup.py builds it (str values) or as  *)
(* vobject reads it from text (list values).                               *)
(***************************************************************************)
MaxOrgs == 3

LongForm ==
    <<"C", "e", "n", "t", "r", "e", " ", "I", "n", "t", "e", "r", "n", "a",
      "t", "i", "o", "n", "a", "l", " ", "d", "e", " ", "R", "e", "c", "h",
      "e", "r", "c", "h", "e", " ", "s", "u", "r", " ", "l", "'", "E", "n",
      "v", "i", "r", "o", "n", "n", "e", "m", "e", "n", "t", " ", "e", "t",
      " ", "l", "e", " ", "D", "e_acute", "v", "e", "l", "o", "p", "p", "e", "m",
      "e", "n", "t">>

OrgPool ==
    { OrgStr(LongForm),
      OrgStr(<<"C", "I", "R", "E", "D">>),
      OrgStr(<<"c", "i", "r", "e", "d">>),
      OrgStr(<<"U", "n", "i", "v", "e", "r", "s", "i", "t", "y", " ", "o", "f", " ",
               "P", "a", "r", "i", "s">>),
      OrgStr(<<"C", "I", "R", "E", "D", " ", "C", "I", "R", "E", "D">>),
      OrgStr(<<"C", "I", "R", "E", "D", ",", " ", "c", "i", "r", "e", "d">>),
      OrgStr(LongForm \o <<" ", "C", "I", "R", "E", "D">>),
      OrgList(<<LongForm>>),
      OrgList(<<<<"C", "I", "R", "E", "D">>>>) }

OrgIdle ==
    /\ opc = "idle" /\ org_values = <<>>
    /\ ovcard = StageCard(<<>>, <<>>, <<>>, <<>>)

\* vcard = vobject.vCard(); vcard.add('fn').value = 'Test Person'
OrgInit ==
    /\ opc = "building" /\ org_values = <<>>
    /\ ovcard = StageCard(<<<<"T", "e", "s", "t", " ", "P", "e", "r", "s", "o", "n">>>>, <<>>, <<>>, <<>>)

\* vcard.add('org').value = org_value, or one more ORG line read from text.
AddOrg ==
    /\ opc = "building"
    /\ Len(org_values) < MaxOrgs
    /\ \E value \in OrgPool :
          /\ org_values' = Append(org_values, value)
          /\ ovcard' = [ovcard EXCEPT !.org = Append(@, value),
                                      !.keys = @ \cup {"org"}]
    /\ UNCHANGED opc
    /\ UNCHANGED notOrg

\* deduplicate_CIRED_ORG(vcard)
DeduplicateOrg ==
    /\ opc = "building"
    /\ ovcard' = deduplicate_CIRED_ORG(ovcard)
    /\ opc' = "deduplicated"
    /\ UNCHANGED org_values
    /\ UNCHANGED notOrg

OrgNext ==
    \/ AddOrg
    \/ DeduplicateOrg

(***************************************************************************)
(* SpecIngest: the body of the loop of ingest_contacts on one card (lines  *)
(* 312-328), with the tables of the source.                                *)
(***************************************************************************)
\* The names of the three tables, and one that is in none.
TableNames ==
    { FN_SUBSTITUTION_BASE[i][1] : i \in 1..Len(FN_SUBSTITUTION_BASE) }
        \cup { FN_SUBSTITUTION_BASE[i][2] : i \in 1..Len(FN_SUBSTITUTION_BASE) }
        \cup { N_SUBSTITUTION_WHITELIST[i][1] : i \in 1..Len(N_SUBSTITUTION_WHITELIST) }
        \cup { <<"J", "e", "a", "n", " ", "D", "u", "p", "o", "n", "t">> }

\* The FN of a card: none, or a name as it is, between blanks, or followed
\* by a period.
IngestFNs ==
    {<<>>} \cup UNION { { <<k>>, <<<<" ">> \o k \o <<" ">>>>, <<k \o <<".">>>> } :
                          k \in TableNames }

\* The N of a card: none, or a five-part name.
IngestNs ==
    { <<>>, << <<<<"D", "o", "e">>, <<"J", "o">>, <<>>, <<>>, <<>>>> >> }

IngestIdle ==
    /\ ipc = "idle"
    /\ iraw = VCard(<<>>, <<>>, NoContents)
    /\ ivcard = VCard(<<>>, <<>>, NoContents)

IngestInit ==
    /\ ipc = "read"
    /\ \E fn \in IngestFNs : \E n \in IngestNs : iraw = VCard(fn, n, NoContents)
    /\ ivcard = iraw

\* Lines 312-315.
IngestFullName ==
    /\ ipc = "read"
    /\ ivcard' = SubstituteFN(ivcard)
    /\ ipc' = "fn"
    /\ UNCHANGED iraw
    /\ UNCHANGED notIngest

\* Lines 316-328: the card is appended unless line 317 raises.
IngestStructuredName ==
    /\ ipc = "fn"
    /\ IF IngestRaises(ivcard)
       THEN /\ ipc' = "raised"
            /\ UNCHANGED ivcard
       ELSE /\ ivcard' = SubstituteN(ivcard)
            /\ ipc' = "ingested"
    /\ UNCHANGED iraw
    /\ UNCHANGED notIngest

IngestNext ==
    \/ IngestFullName
    \/ IngestStructuredName

(***************************************************************************)
(* SpecCollect: collect_emails of askEmail.py (70-93).  The files of the   *)
(* mail directory are handed to the workers of a thread pool in the order  *)
(* of the walk; the workers run extract_emails_from_file (53-68) and end   *)
(* in any order; the calling thread takes their results in the order of    *)
(* the files.                                                              *)
(***************************************************************************)
MaxMailFiles == 3
MaxWorkers == 2

\* The (name, email) pairs that the headers of a file can hold.
PairPool ==
    { <<<<>>, <<"a", "l", "@", "c", "e", "n", "t", "r", "e", "-", "c", "i", "r", "e",
                "d", ".", "f", "r">>>>,
      <<<<"A", "l">>, <<"a", "l", "@", "c", "e", "n", "t", "r", "e", "-", "c", "i", "r", "e",
                "d", ".", "f", "r">>>>,
      <<<<"B", "o">>, <<"b", "o", "@", "c", "e", "n", "t", "r", "e", "-", "c", "i", "r", "e",
                "d", ".", "f", "r">>>> }

\* A file of the directory: whether its name, up to the first colon, ends
\* with .txt or .eml, whether open() succeeds, and the pairs of its To:,
\* From: and Cc: lines whose address matches EMAIL_PATTERN.
MailFiles ==
    { [listed |-> FALSE, readable |-> TRUE, pairs |-> {}],
      [listed |-> TRUE, readable |-> FALSE, pairs |-> {}] }
        \cup { [listed |-> TRUE, readable |-> TRUE, pairs |-> s] : s \in SUBSET PairPool }

\* ord(c) for the characters of a display name or an address.
MailCodePoint(c) ==
    IF c = "-" THEN 45
    ELSE IF c = "." THEN 46
    ELSE IF c = "@" THEN 64
    ELSE IF c \in UpperSet THEN 64 + IndexOf(UpperLetters, c)
    ELSE OrdOf[c]

\* a <= b for two str.
RECURSIVE TextLeq(_, _)
TextLeq(a, b) ==
    IF a = <<>> THEN TRUE
    ELSE IF b = <<>> THEN FALSE
    ELSE IF Head(a) = Head(b) THEN TextLeq(Tail(a), Tail(b))
    ELSE MailCodePoint(Head(a)) < MailCodePoint(Head(b))

\* a <= b for two tuples (name, email).
PairLeq(a, b) ==
    IF a[1] = b[1] THEN TextLeq(a[2], b[2]) ELSE TextLeq(a[1], b[1])

\* sorted(all_emails)
RECURSIVE SortedPairs(_)
SortedPairs(S) ==
    IF S = {} THEN <<>>
    ELSE LET m == CHOOSE x \in S : \A y \in S : PairLeq(x, y)
         IN  <<m>> \o SortedPairs(S \ {m})

\* extract_emails_from_file: the set it returns; open() that raises leaves
\* it empty.
extract_emails_from_file(file) ==
    IF file.readable THEN file.pairs ELSE {}

\* A faulty all_emails.update that keeps the last result only, for
\* comparison.
KeepLast(all, emails) == emails

\* all_emails.update(emails)
Update(all, emails) == all \cup emails

CollectIdle ==
    /\ cpc = "idle"
    /\ mail_dir = <<>> /\ file_paths = <<>>
    /\ wpc = <<>> /\ returned = <<>>
    /\ yielded = 0 /\ all_emails = {} /\ collected = <<>>

CollectInit ==
    /\ cpc = "walk"
    /\ \E n \in 0..MaxMailFiles : mail_dir \in [1..n -> MailFiles]
    /\ file_paths = <<>>
    /\ wpc = <<>> /\ returned = <<>>
    /\ yielded = 0 /\ all_emails = {} /\ collected = <<>>

\* Lines 71-84: the listed files, in the order of the walk; executor.map
\* submits one call per file.
WalkAndSubmit ==
    /\ cpc = "walk"
    /\ file_paths' = SelectSeq(mail_dir, LAMBDA f : f.listed)
    /\ wpc' = [i \in 1..Len(file_paths') |-> "queued"]
    /\ returned' = [i \in 1..Len(file_paths') |-> {}]
    /\ cpc' = "map"
    /\ UNCHANGED <<mail_dir, yielded, all_emails, collected>>
    /\ UNCHANGED notCollect

\* A free worker takes the oldest call of the queue.
WorkerStarts ==
    /\ cpc \in {"map", "returned", "interrupted"}
    /\ \E i \in 1..Len(file_paths) :
          /\ wpc[i] = "queued"
          /\ \A j \in 1..(i - 1) : wpc[j] # "queued"
          /\ Cardinality({ j \in 1..Len(file_paths) : wpc[j] = "running" }) < MaxWorkers
          /\ wpc' = [wpc EXCEPT ![i] = "running"]
    /\ UNCHANGED <<cpc, mail_dir, file_paths, returned, yielded, all_emails, collected>>
    /\ UNCHANGED notCollect

\* A running worker returns the set of its file.
WorkerReturns ==
    /\ \E i \in 1..Len(file_paths) :
          /\ wpc[i] = "running"
          /\ wpc' = [wpc EXCEPT ![i] = "done"]
          /\ returned' = [returned EXCEPT ![i] = extract_emails_from_file(file_paths[i])]
    /\ UNCHANGED <<cpc, mail_dir, file_paths, yielded, all_emails, collected>>
    /\ UNCHANGED notCollect

\* Lines 85-86: the calling thread gets the next result, in the order of
\* the files, and adds it to all_emails.
TakeResult ==
    /\ cpc = "map"
    /\ yielded < Len(file_paths)
    /\ wpc[yielded + 1] = "done"
    /\ all_emails' = Update(all_emails, returned[yielded + 1])
    /\ yielded' = yielded + 1
    /\ UNCHANGED <<cpc, mail_dir, file_paths, wpc, returned, collected>>
    /\ UNCHANGED notCollect

\* Line 93: every result taken, the sorted list is returned.
CollectReturns ==
    /\ cpc = "map"
    /\ yielded = Len(file_paths)
    /\ collected' = SortedPairs(all_emails)
    /\ cpc' = "returned"
    /\ UNCHANGED <<mail_dir, file_paths, wpc, returned, yielded, all_emails>>
    /\ UNCHANGED notCollect

\* Lines 90-92: KeyboardInterrupt while results are awaited; the executor
\* is shut down, the calls not yet started are run to their end, and what
\* was collected so far is returned.
Interrupted ==
    /\ cpc = "map"
    /\ yielded < Len(file_paths)
    /\ collected' = SortedPairs(all_emails)
    /\ cpc' = "interrupted"
    /\ UNCHANGED <<mail_dir, file_paths, wpc, returned, yielded, all_emails>>
    /\ UNCHANGED notCollect

CollectNext ==
    \/ WalkAndSubmit
    \/ WorkerStarts
    \/ WorkerReturns
    \/ TakeResult
    \/ CollectReturns
    \/ Interrupted

(***************************************************************************)
(* SpecFix: fix_vcard of fix_emails.py applied to a card, then applied     *)
(* again to the card it returned.  The script exists twice, with the same  *)
(* code and two tables: 4_Clean/fix_emails.py and src/fix_emails.py.       *)
(***************************************************************************)
MaxFixLines == 2

\* KNOWN_EMAILS of 4_Clean/fix_emails.py (lines 17-37).
KNOWN_EMAILS ==
    << <<<<"C", "l", "e_acute", "m", "e", "n", "t", " ", "F", "e", "g", "e", "r">>, <<"c", "l", "e", "m", "e", "n", "t", ".", "f", "e", "g", "e", "@", "a",
                            "g", "r", "o", "p", "a", "r", "i", "s", "t", "e", "c", "h", ".", "f",
                            "r">>>>,
       <<<<"D", "a", "n", "i", "e", "l", " ", "T", "h", "e", "r", "y">>, <<>>>>,
       <<<<"G", "u", "i", "l", "l", "a", "u", "m", "e", " ", "C", "a", "l", "a", "s">>, <<"e", "r", "t", "h", "i", "n", "d", "o", "l", "@", "h", "o", "t", "m",
                              "a", "i", "l", ".", "c", "o", "m">>>>,
       <<<<"H", "o", "b", "y", " ", "R", "a", "t", "s", "i", "h", "o", "a", "r",
           "a", "n", "a">>, <<"h", "o", "b", "y", ".", "r", "a", "t", "s", "i", "h", "o", "a", "r",
                                "a", "n", "a", "@", "g", "m", "a", "i", "l", ".", "c", "o", "m">>>>,
       <<<<"H", "e_acute", "l", "o", "i_diaeresis", "s", "e", " ", "G", "u", "i", "l", "l", "a",
           "u", "m", "i", "n">>, <<"h", "e", "l", "o", "i", "s", "e", ".", "g", "u", "i", "l", "l", "a",
                                 "u", "m", "i", "n", "@", "g", "m", "a", "i", "l", ".", "c", "o", "m">>>>,
       <<<<"I", "l", "a", "r", "i", "a", " ", "B", "r", "u", "n", "e", "t", "t", "i">>, <<"i", "l", "a", "r", "i", "a", ".", "b", "r", "u", "n", "e", "t", "t",
                              "i", "@", "u", "z", "h", ".", "c", "h">>>>,
       <<<<"I", "s", "a", "b", "e", "l", "l", "e", " ", "B", "i", "l", "l", "y">>, <<"i", "s", "a", "b", "e", "l", "l", "e", ".", "b", "i", "l", "l", "y",
                             "3", "4", "8", "@", "o", "r", "a", "n", "g", "e", ".", "f", "r">>>>,
       <<<<"J", "e", "a", "n", "-", "C", "h", "a", "r", "l", "e", "s", " ", "H",
           "o", "u", "r", "c", "a", "d", "e">>, <<"j", "c", "h", ".", "h", "o", "u", "r", "c", "a", "d", "e", "@", "g",
                                    "m", "a", "i", "l", ".", "c", "o", "m">>>>,
       <<<<"J", "o", "e_diaeresis", "l", " ", "H", "a", "m", "a", "n", "n">>, <<"h", "a", "m", "a", "n", "n", ".", "j", "o", "e", "l", "@", "o", "r",
                          "a", "n", "g", "e", ".", "f", "r">>>>,
       <<<<"L", "a", "u", "r", "e", " ", "L", "a", "m", "p", "i", "n">>, <<"l", "a", "u", "r", "e", ".", "g", "r", "a", "z", "i", "@", "d", "g",
                           "t", "r", "e", "s", "o", "r", ".", "g", "o", "u", "v", ".", "f", "r">>>>,
       <<<<"L", "i", " ", "J", "u", "n">>, <<"p", "r", "u", "n", "u", "s", "h", "2", "0", "8", "@", "g", "m", "a",
                     "i", "l", ".", "c", "o", "m">>>>,
       <<<<"M", "i", "n", "h", " ", "H", "a", "-", "D", "u", "o", "n", "g">>, <<"m", "i", "n", "h", ".", "h", "a", "-", "d", "u", "o", "n", "g", "@",
                            "c", "n", "r", "s", ".", "f", "r">>>>,
       <<<<"N", "h", "a", "n", " ", "N", "g", "u", "y", "e", "n">>, <<"n", "h", "a", "n", "a", "i", "t", "@", "y", "a", "h", "o", "o", ".",
                          "c", "o", "m">>>>,
       <<<<"S", "a", "m", "u", "e", "l", " ", "J", "u", "h", "e", "l">>, <<"s", "a", "m", "u", "e", "l", ".", "j", "u", "h", "e", "l", "@", "u",
                           "s", "y", "s", ".", "e", "t", "h", "z", ".", "c", "h">>>>,
       <<<<"S", "e", "r", "i", "n", "e", " ", "G", "u", "i", "c", "h", "o", "u", "d">>, <<>>>>,
       <<<<"S", "e_acute", "b", "a", "s", "t", "i", "e", "n", " ", "D", "u", "q", "u",
           "e", "s", "n", "o", "y">>, <<"s", "e", "b", "a", "s", "t", "i", "e", "n", ".", "d", "u", "q", "u",
                                  "e", "s", "n", "o", "y", "@", "g", "m", "a", "i", "l", ".", "c", "o",
                                  "m">>>>,
       <<<<"T", "a", " ", "M", "a", "i", "-", "T", "h", "i">>, <<>>>>,
       <<<<"T", "h", "a", "n", "h", " ", "N", "g", "u", "y", "e", "n">>, <<>>>>,
       <<<<"T", "h", "i", "b", "a", "u", "l", "t", " ", "C", "o", "r", "n", "e",
           "l", "o", "u", "p">>, <<"t", "h", "i", ".", "l", "o", "u", "p", "3", "@", "g", "m", "a", "i",
                                 "l", ".", "c", "o", "m">>>> >>

\* KNOWN_EMAILS of src/fix_emails.py (lines 19-39), most of it not filled in.
KNOWN_EMAILS_unfilled ==
    << <<<<"C", "l", "e_acute", "m", "e", "n", "t", " ", "F", "e", "g", "e", "r">>, <<>>>>,
       <<<<"D", "a", "n", "i", "e", "l", " ", "T", "h", "e", "r", "y">>, <<>>>>,
       <<<<"G", "u", "i", "l", "l", "a", "u", "m", "e", " ", "C", "a", "l", "a", "s">>, <<>>>>,
       <<<<"H", "o", "b", "y", " ", "R", "a", "t", "s", "i", "h", "o", "a", "r",
           "a", "n", "a">>, <<>>>>,
       <<<<"H", "e_acute", "l", "o", "i_diaeresis", "s", "e", " ", "G", "u", "i", "l", "l", "a",
           "u", "m", "i", "n">>, <<>>>>,
       <<<<"I", "l", "a", "r", "i", "a", " ", "B", "r", "u", "n", "e", "t", "t", "i">>, <<>>>>,
       <<<<"I", "s", "a", "b", "e", "l", "l", "e", " ", "B", "i", "l", "l", "y">>, <<>>>>,
       <<<<"J", "e", "a", "n", "-", "C", "h", "a", "r", "l", "e", "s", " ", "H",
           "o", "u", "r", "c", "a", "d", "e">>, <<"j", "c", "h", ".", "h", "o", "u", "r", "c", "a", "d", "e", "@", "g",
                                    "m", "a", "i", "l", ".", "c", "o", "m">>>>,
       <<<<"J", "o", "e_diaeresis", "l", " ", "H", "a", "m", "a", "n", "n">>, <<>>>>,
       <<<<"L", "a", "u", "r", "e", " ", "L", "a", "m", "p", "i", "n">>, <<>>>>,
       <<<<"L", "i", " ", "J", "u", "n">>, <<>>>>,
       <<<<"M", "i", "n", "h", " ", "H", "a", "-", "D", "u", "o", "n", "g">>, <<"m", "i", "n", "h", ".", "h", "a", "-", "d", "u", "o", "n", "g", "@",
                            "c", "n", "r", "s", ".", "f", "r">>>>,
       <<<<"N", "h", "a", "n", " ", "N", "g", "u", "y", "e", "n">>, <<>>>>,
       <<<<"S", "a", "m", "u", "e", "l", " ", "J", "u", "h", "e", "l">>, <<>>>>,
       <<<<"S", "e", "r", "i", "n", "e", " ", "G", "u", "i", "c", "h", "o", "u", "d">>, <<>>>>,
       <<<<"S", "e_acute", "b", "a", "s", "t", "i", "e", "n", " ", "D", "u", "q", "u",
           "e", "s", "n", "o", "y">>, <<>>>>,
       <<<<"T", "a", " ", "M", "a", "i", "-", "T", "h", "i">>, <<>>>>,
       <<<<"T", "h", "a", "n", "h", " ", "N", "g", "u", "y", "e", "n">>, <<>>>>,
       <<<<"T", "h", "i", "b", "a", "u", "l", "t", " ", "C", "o", "r", "n", "e",
           "l", "o", "u", "p">>, <<>>>> >>

KnownEmailsOf(script) ==
    IF script = "4_Clean/fix_emails.py" THEN KNOWN_EMAILS ELSE KNOWN_EMAILS_unfilled

FixedNote == <<"E", "m", "a", "i", "l", " ", "m", "a", "n", "u", "a", "l", "l", "y",
               " ", "a", "d", "d", "e", "d", " ", "v", "i", "a", " ", "f", "i", "x",
               " ", "s", "c", "r", "i", "p", "t">>

\* A faulty add_vcard_field that adds the line whatever the card holds, for
\* comparison.
add_vcard_field_always(vcard, field, value) ==
    [vcard EXCEPT !.contents[field] = Append(@, value)]

\* add_vcard_field: a line is added at the end unless a line of the field
\* has exactly this value.
add_vcard_field(vcard, field, value) ==
    IF value \notin Range(vcard.contents[field])
    THEN [vcard EXCEPT !.contents[field] = Append(@, value)]
    ELSE vcard

\* Line 51: the message of the error is built with vcard.serialize(), which
\* raises for a card without FN; the card has not been touched.
FixRaises(vcard) == vcard.fn = <<>> /\ SerializeRaises(vcard)

\* fix_vcard: the card it leaves.
fix_vcard(vcard, script) ==
    IF vcard.fn = <<>> THEN vcard
    ELSE LET fn_value == Strip(vcard.fn[1])
         IN  IF ~DictHas(KnownEmailsOf(script), fn_value) THEN vcard
             ELSE LET email_to_add == Strip(DictGet(KnownEmailsOf(script), fn_value))
                  IN  IF email_to_add = <<>> THEN vcard
                      ELSE add_vcard_field(add_vcard_field(vcard, "email", email_to_add),
                                           "note", FixedNote)

\* The full names of the cards: none, names of the tables with an email in
\* both, in one or in none, one of them between blanks, and another name.
FixNames ==
    { <<>>, <<<<"L", "i", " ", "J", "u", "n">>>>, <<<<" ", "L", "i", " ", "J", "u", "n", " ">>>>, <<<<"D", "a", "n", "i", "e", "l", " ", "T", "h", "e", "r", "y">>>>,
      <<<<"J", "e", "a", "n", "-", "C", "h", "a", "r", "l", "e", "s", " ", "H",
          "o", "u", "r", "c", "a", "d", "e">>>>, <<<<"C", "l", "e_acute", "m", "e", "n", "t", " ", "F", "e", "g", "e", "r">>>>, <<<<"J", "e", "a", "n", " ", "D", "u", "p", "o", "n", "t">>>> }

\* The values of the EMAIL lines of the cards.
FixEmails ==
    { <<"p", "r", "u", "n", "u", "s", "h", "2", "0", "8", "@", "g", "m", "a",
        "i", "l", ".", "c", "o", "m">>, <<" ", "p", "r", "u", "n", "u", "s", "h", "2", "0", "8", "@", "g", "m",
                                "a", "i", "l", ".", "c", "o", "m">>,
      <<"j", "c", "h", ".", "h", "o", "u", "r", "c", "a", "d", "e", "@", "g",
        "m", "a", "i", "l", ".", "c", "o", "m">>, <<"b", "@", "y", ".", "f", "r">> }

\* The values of the NOTE lines of the cards.
FixNotes == { FixedNote, <<"a", "l", "u", "m", "n", "u", "s">> }

\* The lists of at most n members of S.
ListsUpTo(S, n) == UNION { [1..k -> S] : k \in 0..n }

FixIdle ==
    /\ fapplied = 0 /\ fscript = "none" /\ fraised = FALSE
    /\ fcard = VCard(<<>>, <<>>, NoContents)
    /\ fonce = fcard /\ fvcard = fcard

FixInit ==
    /\ fapplied = 0 /\ fraised = FALSE
    /\ fscript \in {"4_Clean/fix_emails.py", "fix_emails.py"}
    /\ \E fn \in FixNames : \E emails \in ListsUpTo(FixEmails, MaxFixLines) :
          \E notes \in ListsUpTo(FixNotes, MaxFixLines) :
             fcard = VCard(fn, <<>>, [NoContents EXCEPT !.email = emails, !.note = notes])
    /\ fonce = fcard /\ fvcard = fcard

\* fix_vcard(vcard, args) on the card object, for the first time, then on
\* what the first call left.
ApplyFix ==
    /\ fapplied < 2
    /\ fvcard' = fix_vcard(fvcard, fscript)
    /\ fraised' = FixRaises(fvcard)
    /\ fonce' = IF fapplied = 0 THEN fvcard' ELSE fonce
    /\ fapplied' = fapplied + 1
    /\ UNCHANGED <<fcard, fscript>>
    /\ UNCHANGED notFix

FixNext == ApplyFix

(***************************************************************************)
(* The specifications                                                      *)
(***************************************************************************)
InitNorm ==
    /\ NormInit /\ MergeIdle /\ FnIdle /\ StageIdle /\ PairIdle /\ OrgIdle /\ IngestIdle /\ CollectIdle
    /\ FixIdle

SpecNorm == InitNorm /\ [][NormNext]_vars

InitMerge ==
    /\ MergeInit /\ NormIdle /\ FnIdle /\ StageIdle /\ PairIdle /\ OrgIdle /\ IngestIdle /\ CollectIdle
    /\ FixIdle

SpecMerge == InitMerge /\ [][MergeNext]_vars

InitFn ==
    /\ FnInit /\ NormIdle /\ MergeIdle /\ StageIdle /\ PairIdle /\ OrgIdle /\ IngestIdle /\ CollectIdle
    /\ FixIdle

SpecFn == InitFn /\ [][FnNext]_vars

InitStage ==
    /\ StageInit /\ NormIdle /\ MergeIdle /\ FnIdle /\ PairIdle /\ OrgIdle /\ IngestIdle /\ CollectIdle
    /\ FixIdle

SpecStage == InitStage /\ [][StageNext]_vars

InitPair ==
    /\ PairInit /\ NormIdle /\ MergeIdle /\ FnIdle /\ StageIdle /\ OrgIdle /\ IngestIdle /\ CollectIdle
    /\ FixIdle

SpecPair == InitPair /\ [][PairNext]_vars

InitOrg ==
    /\ OrgInit /\ NormIdle /\ MergeIdle /\ FnIdle /\ StageIdle /\ PairIdle /\ IngestIdle /\ CollectIdle
    /\ FixIdle

SpecOrg == InitOrg /\ [][OrgNext]_vars

InitIngest ==
    /\ IngestInit /\ NormIdle /\ MergeIdle /\ FnIdle /\ StageIdle /\ PairIdle /\ OrgIdle
    /\ CollectIdle /\ FixIdle

SpecIngest == InitIngest /\ [][IngestNext]_vars

InitCollect ==
    /\ CollectInit /\ NormIdle /\ MergeIdle /\ FnIdle /\ StageIdle /\ PairIdle /\ OrgIdle
    /\ IngestIdle /\ FixIdle

SpecCollect == InitCollect /\ [][CollectNext]_vars

InitFix ==
    /\ FixInit /\ NormIdle /\ MergeIdle /\ FnIdle /\ StageIdle /\ PairIdle /\ OrgIdle
    /\ IngestIdle /\ CollectIdle

SpecFix == InitFix /\ [][FixNext]_vars


(***************************************************************************)
(* Claims about normalize_name, checked under SpecNorm.                    *)
(***************************************************************************)
\* The words of a name as normalize_name sees them.
LastParts == NameParts(SurnameLast)

\* A word that normalizes to exactly one part (letters and digits only).
OnePart(w) == Len(NameParts(w)) = 1

PlainWords == OnePart(surname) /\ \A i \in 1..Len(given) : OnePart(given[i])

\* The normalized form of a plain word.
PartOf(w) == NameParts(w)[1]

\* C2 (as claimed): normalization is idempotent for every full name:
\* normalize_name(normalize_name(x)) = normalize_name(x).
C2_IdempotentForEveryName == kTwice # Unset => kTwice = kLast

\* C2 (amended): normalization is idempotent for the names of at most one
\* word and for the names of two words that start with different characters;
\* for a name of three or more words the second normalization always gives
\* another key.
C2_IdempotentOnShortNames ==
    kTwice # Unset =>
        /\ Len(LastParts) <= 1 => kTwice = kLast
        /\ (Len(LastParts) = 2 /\ LastParts[1][1] # LastParts[2][1]) => kTwice = kLast
        /\ Len(LastParts) >= 3 => kTwice # kLast

\* C2 witness: a two-word name whose key is the surname-first form, normalized twice.
C2_Witness ==
    /\ kTwice # Unset
    /\ Len(LastParts) = 2
    /\ LastParts[1][1] # LastParts[2][1]
    /\ kLast = Form2(LastParts)
    /\ kLast # Form1(LastParts)
    /\ kTwice = kLast

\* C3 (as claimed): for every surname and one or more given names, the
\* surname-last and the surname-first form get the same key.
C3_OrderInsensitiveAnyLength ==
    (PlainWords /\ Len(given) >= 1 /\ kLast # Unset /\ kFirst # Unset)
        => kLast = kFirst

\* C3 (amended): the surname-last and the surname-first form get the same key
\* when there is one given name, and with two or more given names when the
\* surname sorts strictly before the first and the last given name; the key
\* is then the surname followed by the initials of the given names.
C3_OrderInsensitiveWhenSurnameSmallest ==
    (PlainWords /\ Len(given) >= 1 /\ kLast # Unset /\ kFirst # Unset) =>
        /\ Len(given) = 1 => kLast = kFirst
        /\ (/\ Len(given) >= 2
            /\ StrLess(PartOf(surname), PartOf(given[1]))
            /\ StrLess(PartOf(surname), PartOf(given[Len(given)])))
           => (/\ kLast = kFirst
               /\ kLast = PartOf(surname) \o <<" ">> \o Initials(MapSeq(PartOf, given)))

\* C3 witness: two given names after/before a smaller surname, both keys computed.
C3_Witness ==
    /\ PlainWords /\ Len(given) >= 2
    /\ given[1] # given[Len(given)]
    /\ StrLess(PartOf(surname), PartOf(given[1]))
    /\ StrLess(PartOf(surname), PartOf(given[Len(given)]))
    /\ kLast # Unset /\ kFirst = kLast

\* C4: for a name of exactly two words a and b (each a run of letters and
\* digits), 'a b', 'b a' and 'b, a' get the same key.
C4_TwoWordSwap ==
    (/\ PlainWords /\ Len(given) = 1
     /\ kLast # Unset /\ kFirst # Unset /\ kComma # Unset)
        => (kLast = kFirst /\ kFirst = kComma)

\* C4 witness: two different words whose two candidate forms differ, all
\* three keys computed.
C4_Witness ==
    /\ PlainWords /\ Len(given) = 1
    /\ PartOf(given[1]) # PartOf(surname)
    /\ Form1(LastParts) # Form2(LastParts)
    /\ kLast # Unset /\ kFirst = kLast /\ kComma = kLast


(***************************************************************************)
(* Claims about grouping and merging, checked under SpecMerge.             *)
(***************************************************************************)
\* The cards read whose grouping key is the empty string.
Unkeyable == { i \in 1..Len(all_contacts) : normalize_fn(all_contacts[i]) = <<>> }

\* C1 (as claimed): a record whose grouping key is the empty string is placed
\* in no group: no group has the empty key, so no merged contact is built
\* from such records and two of them are never merged with each other.
C1_EmptyKeyInNoGroup ==
    mpc \in {"grouped", "merged"} =>
        /\ <<>> \notin DOMAIN grouped
        /\ \A k \in DOMAIN grouped : \A j \in 1..Len(grouped[k]) :
               normalize_fn(grouped[k][j]) # <<>>

\* Two strings equal up to letter case (and surrounding blanks).
SameUpToCase(a, b) == Lower(Strip(a)) = Lower(Strip(b))

\* C5 (as claimed): in a merged contact no two emails and no two
\* organizations are equal up to letter case.
C5_CaseInsensitiveDedup ==
    mpc = "merged" =>
        \A m \in 1..Len(merged_contacts) : \A f \in {"email", "org"} :
            LET lines == merged_contacts[m].contents[f]
            IN  \A i, j \in 1..Len(lines) :
                    i < j => ~SameUpToCase(lines[i], lines[j])

\* The type tags of a url line as a set, whatever their order and case.
TagSet(line) == { Lower(line.type[i]) : i \in 1..Len(line.type) }

\* C6 (as claimed): in a merged contact no two url lines have the same
\* trimmed value and the same set of type tags, the tags compared whatever
\* their order and letter case.
C6_UrlsUniqueByValueAndTagSet ==
    mpc = "merged" =>
        \A m \in 1..Len(merged_contacts) :
            LET lines == merged_contacts[m].contents.url
            IN  \A i, j \in 1..Len(lines) :
                    i < j => ~(/\ Strip(lines[i].value) = Strip(lines[j].value)
                               /\ TagSet(lines[i]) = TagSet(lines[j]))

(***************************************************************************)
(* Claims about normalize_fn, checked under SpecFn.                        *)
(***************************************************************************)
\* The entries of the normalized-key table whose key is the FN as is,
\* stripped, or with its runs of whitespace collapsed to one space.
Overrides(fn) ==
    { i \in 1..Len(FN_NORMALIZATION_WHITELIST) :
        FN_NORMALIZATION_WHITELIST[i][1]
            \in {fn, Strip(fn), CollapseSpaces(Strip(fn))} }

\* C7: an FN that is a key of the normalized-key table (as is, stripped or
\* with whitespace collapsed) gets the key of the table's target; any other
\* FN gets normalize_name(FN); two table keys with one target get one key.
C7_OverridePrecedence ==
    /\ (keyA # Unset /\ fnA # <<>>) =>
          IF Overrides(fnA[1]) # {}
          THEN \A i \in Overrides(fnA[1]) :
                   keyA = normalize_name(FN_NORMALIZATION_WHITELIST[i][2])
          ELSE keyA = normalize_name(fnA[1])
    /\ (keyA # Unset /\ keyB # Unset /\ fnA # <<>>) =>
          \A i \in Overrides(fnA[1]), j \in Overrides(fnB[1]) :
              FN_NORMALIZATION_WHITELIST[i][2] = FN_NORMALIZATION_WHITELIST[j][2]
                  => keyA = keyB

\* C7 witness: two different table keys with one target, the first written
\* with extra whitespace, that the standard algorithm gives different keys.
C7_Witness ==
    /\ keyA # Unset /\ keyB = keyA
    /\ fnA # <<>> /\ fnA[1] # Strip(fnA[1])
    /\ Overrides(fnA[1]) # {}
    /\ Strip(fnA[1]) \notin WhitelistKeys
    /\ normalize_name(fnA[1]) # normalize_name(fnB[1])
    /\ normalize_name(fnA[1]) # keyA

(***************************************************************************)
(* Claims about the cleaning stage, checked under SpecStage.               *)
(***************************************************************************)
\* main has ended, by return 0 or by an exception.
StageEnded == spc \in {"done", "aborted"}

\* C8 (as claimed): when the processor raised for a card, the card written
\* to the output is that card in the state it had on input: once the stage
\* has ended, the output holds, at the place of every card of the error
\* log, the text of the card as it was read.
C8_FailedCardWrittenAsOnInput ==
    StageEnded =>
        \A k \in 1..Len(error_log) :
            /\ error_log[k] <= Len(stdout)
            /\ stdout[error_log[k]] = Serialize(stdin[error_log[k]].vcard)

\* An input of two cards, one that vobject parses and can write, and one
\* that it cannot parse; no limit is set.
OneWellFormedOneMalformed ==
    /\ Len(stdin) = 2
    /\ limit = NoLimit
    /\ \E i, j \in 1..2 :
          /\ i # j
          /\ stdin[i].parses /\ ~SerializeRaises(stdin[i].vcard)
          /\ ~stdin[j].parses

\* C9 (as claimed): an input of one well-formed and one malformed card
\* yields two output cards.
C9_TwoCardsInTwoCardsOut ==
    (StageEnded /\ OneWellFormedOneMalformed) => Len(stdout) = 2

\* The number of cards selected for processing: all of them without a
\* limit or with limit 0, the first limit ones with a positive limit; a
\* negative limit leaves that many cards out at the end (a Python slice).
SelectedCount ==
    IF limit = NoLimit \/ limit[1] = 0 THEN Len(vcard_list)
    ELSE IF limit[1] > 0 THEN Min(limit[1], Len(vcard_list))
    ELSE IF Len(vcard_list) + limit[1] > 0 THEN Len(vcard_list) + limit[1]
    ELSE 0

IngestionOver == mpc \in {"grouped", "merged", "written", "done"}

\* The cards ingested from the i-th file, in order.
IngestedFrom(i) ==
    LET at == SelectSeq([k \in 1..Len(sources) |-> k],
                        LAMBDA k : sources[k] = FileName(i))
    IN  [k \in 1..Len(at) |-> all_contacts[at[k]]]

\* What ingestion makes of the cards of a file.
Substituted(cards) == [k \in 1..Len(cards) |-> SubstituteN(SubstituteFN(cards[k]))]

\* C11: a missing or empty input file contributes no record and does not
\* abort ingestion: ingestion is left by an exception only when a file that
\* exists cannot be opened or read, and when it returns, every card of every
\* file with cards has been ingested, in order, under the name of its file,
\* and no record bears the name of a missing or empty file.
C11_MissingOrEmptyFileSkipped ==
    scenario = "sources" =>
        /\ (mpc = "raised" /\ ~output_file.exists)
               => \E i \in 1..Len(file_status) : file_status[i] = "unreadable"
        /\ IngestionOver =>
               \A i \in 1..Len(file_status) :
                   IngestedFrom(i) =
                       IF file_status[i] = "file"
                       THEN Substituted(SourceFiles[i]) ELSE <<>>

\* A missing file and an empty file come before a file with cards, whose
\* cards have been ingested.
C11_Witness ==
    /\ scenario = "sources" /\ IngestionOver
    /\ \E i, j, k \in 1..Len(file_status) :
          /\ i < k /\ j < k
          /\ file_status[i] = "missing" /\ file_status[j] = "empty"
          /\ file_status[k] = "file" /\ IngestedFrom(k) # <<>>

\* main has ended: it has returned or an exception has left it.
MainEnded == mpc \in {"done", "raised"}

\* C12: when every input file is missing or empty, main ends with an
\* exception (a non-zero exit status) and there is no output file.
C12_NoRecordNoOutput ==
    (/\ scenario = "sources"
     /\ \A i \in 1..Len(file_status) : file_status[i] \in {"missing", "empty"}
     /\ MainEnded)
        => (mpc = "raised" /\ ~output_file.exists)

(***************************************************************************)
(* Claims about the merged contact of a group, checked under SpecMerge.    *)
(***************************************************************************)
\* merge_all_contacts has returned.
MergeOver == mpc \in {"merged", "written", "done"}

\* The ways to pair the merged contacts with the groups, one to one.
Matchings ==
    { p \in [1..Len(merged_contacts) -> DOMAIN grouped] :
        /\ \A i, j \in 1..Len(merged_contacts) : i # j => p[i] # p[j]
        /\ \A k \in DOMAIN grouped : \E i \in 1..Len(merged_contacts) : p[i] = k }

\* s.split("\n")
SplitLines(s) ==
    LET nl == <<0>> \o SelectSeq([i \in 1..Len(s) |-> i], LAMBDA i : s[i] = "\n")
                    \o <<Len(s) + 1>>
    IN  [k \in 1..(Len(nl) - 1) |-> SubSeq(s, nl[k] + 1, nl[k + 1] - 1)]

\* The entries of the note or history of a merged contact, in order.
Entries(card, f) ==
    IF card.contents[f] = <<>> THEN <<>> ELSE SplitLines(card.contents[f][1])

\* The non-blank values of a field in the records of a group, trimmed.
GroupValues(recs, f) ==
    { Strip(line) : line \in Range(FieldLines(recs, f)) } \ {<<>>}

\* A url line as its trimmed value and the set of its type tags.
UrlOf(line) == <<Strip(line.value), TagSet(line)>>

\* The organizations and emails of a merged contact are those of the records
\* of its group, each once.
PlainFieldsKept(card, recs) ==
    \A f \in {"org", "email"} :
        LET lines == card.contents[f]
        IN  /\ { Strip(lines[i]) : i \in 1..Len(lines) } = GroupValues(recs, f)
            /\ \A i, j \in 1..Len(lines) : i < j => Strip(lines[i]) # Strip(lines[j])

\* The urls of a merged contact are those of the records of its group, each
\* once.
UrlsKept(card, recs) ==
    LET lines == card.contents.url
    IN  /\ { UrlOf(lines[i]) : i \in 1..Len(lines) }
              = { UrlOf(line) : line \in { l \in Range(FieldLines(recs, "url")) :
                                                Strip(l.value) # <<>> } }
        /\ \A i, j \in 1..Len(lines) : i < j => UrlOf(lines[i]) # UrlOf(lines[j])

\* The notes and the history of a merged contact are the texts of the records
\* of its group, each once, behind the name of a source of the group that
\* carries it.
SourcedFieldsKept(card, recs, srcs) ==
    \A f \in {"note", "hist"} :
        LET entries == Entries(card, f)
        IN  /\ \A e \in 1..Len(entries) :
                  \E i \in 1..Len(recs) : \E j \in 1..Len(recs[i].contents[f]) :
                      /\ Strip(recs[i].contents[f][j]) # <<>>
                      /\ entries[e] = Attributed(srcs[i], Strip(recs[i].contents[f][j]))
            /\ \A t \in GroupValues(recs, f) :
                  Cardinality({ e \in 1..Len(entries) :
                                  \E i \in 1..Len(srcs) :
                                      entries[e] = Attributed(srcs[i], t) }) = 1

\* C13 (as claimed): in the organizations, emails, urls, notes and history
\* of the merged contact of a group, a non-blank value is present if and
\* only if a record of the group has it, and no value is present twice.
C13_NoLossNoDuplicate ==
    MergeOver =>
        \E p \in Matchings : \A m \in 1..Len(merged_contacts) :
            /\ PlainFieldsKept(merged_contacts[m], grouped[p[m]])
            /\ UrlsKept(merged_contacts[m], grouped[p[m]])
            /\ SourcedFieldsKept(merged_contacts[m], grouped[p[m]],
                                 grouped_sources[p[m]])

\* The least element of a non-empty set of integers.
MinOf(S) == CHOOSE x \in S : \A y \in S : x <= y

\* The first-arrived record of a group, as ingested.
FirstArrived(k) ==
    all_contacts[MinOf({ i \in 1..Len(all_contacts) :
                            normalize_fn(all_contacts[i]) = k })]

\* C14: the full name and the structured name of the merged contact of a
\* group are those of the first-arrived record of the group, as ingestion
\* left them; without a structured name in that record there is none in the
\* merged contact.
C14_NamesOfFirstRecord ==
    MergeOver =>
        \E p \in Matchings : \A m \in 1..Len(merged_contacts) :
            /\ merged_contacts[m].fn = FirstArrived(p[m]).fn
            /\ merged_contacts[m].n = FirstArrived(p[m]).n

\* A group whose first record has no structured name and a different full
\* name than a later record that has one: the merged contact has none.
C14_Witness ==
    /\ MergeOver
    /\ \E k \in DOMAIN grouped : \E j \in 2..Len(grouped[k]) :
          /\ grouped[k][1].n = <<>> /\ grouped[k][j].n # <<>>
          /\ grouped[k][1].fn # grouped[k][j].fn
          /\ \E m \in 1..Len(merged_contacts) :
                /\ merged_contacts[m].fn = grouped[k][1].fn
                /\ merged_contacts[m].n = <<>>

\* The entries that the records of a group call for: one for each non-blank
\* text that no earlier line of the group carries, behind the source of the
\* record where it is, in order.
ExpectedEntries(recs, srcs, f) ==
    LET pairs == SourcedLines(recs, srcs, f)
        firsts == SelectSeq([q \in 1..Len(pairs) |-> q],
                      LAMBDA q : /\ Strip(pairs[q][2]) # <<>>
                                 /\ \A r \in 1..(q - 1) :
                                        Strip(pairs[r][2]) # Strip(pairs[q][2]))
    IN  [e \in 1..Len(firsts) |->
            <<"[">> \o pairs[firsts[e]][1] \o <<"]", " ">> \o Strip(pairs[firsts[e]][2])]

\* C15: the notes and the history of the merged contact of a group hold one
\* entry '[source] text' for each distinct non-blank text of the group's
\* records (texts compared exactly, letter case included), with the source
\* of the first record that carries the text, in order of first occurrence.
C15_NotesAttributedOnce ==
    MergeOver =>
        \E p \in Matchings : \A m \in 1..Len(merged_contacts) :
            \A f \in {"note", "hist"} :
                Entries(merged_contacts[m], f)
                    = ExpectedEntries(grouped[p[m]], grouped_sources[p[m]], f)

\* Two records of a group from two sources carry the same text, and the
\* second carries another one: the merged notes hold the shared text behind
\* the first source and the other text behind the second.
C15_Witness ==
    /\ MergeOver
    /\ \E k \in DOMAIN grouped :
          /\ Len(grouped[k]) = 2
          /\ grouped_sources[k][1] # grouped_sources[k][2]
          /\ \E t \in GroupValues(<<grouped[k][1]>>, "note") \cap
                        GroupValues(<<grouped[k][2]>>, "note") :
             \E u \in GroupValues(<<grouped[k][2]>>, "note") \ {t} :
             \E m \in 1..Len(merged_contacts) :
                Entries(merged_contacts[m], "note")
                    = << Attributed(grouped_sources[k][1], t),
                         Attributed(grouped_sources[k][2], u) >>

\* C16: the records 'Minh Ha-Duong' (file A, an email), 'Ha-Duong Minh'
\* (file B, an organization) and 'M. Ha-Duong' (file C, a note), ingested in
\* this order, form one group and merge into one contact with the full name
\* 'Minh Ha-Duong', the email, the organization and the note '[C] alumnus'.
C16_HaDuongMergedIntoOne ==
    (scenario = "haduong" /\ MergeOver) =>
        /\ Cardinality(DOMAIN grouped) = 1
        /\ \A k \in DOMAIN grouped : Len(grouped[k]) = 3
        /\ Len(merged_contacts) = 1
        /\ merged_contacts[1].fn = <<<<"M", "i", "n", "h", " ", "H", "a", "-", "D", "u", "o", "n", "g">>>>
        /\ merged_contacts[1].contents.email = <<<<"m", "@", "x", ".", "f", "r">>>>
        /\ merged_contacts[1].contents.org = <<<<"C", "I", "R", "E", "D">>>>
        /\ Entries(merged_contacts[1], "note") = <<<<"[", "C", "]", " ", "a", "l", "u", "m", "n", "u", "s">>>>

\* The three records have been ingested from their three files and merged,
\* and main has returned.
C16_Witness ==
    /\ scenario = "haduong" /\ mpc = "done"
    /\ sources = <<FileName(1), FileName(2), FileName(3)>>
    /\ Len(merged_contacts) = 1

(***************************************************************************)
(* Claims about normalize_name on two names, checked under SpecPair.       *)
(***************************************************************************)
\* The unaccented lower-case letter of a letter; any other character is
\* itself.
BaseLetter(c) ==
    CASE c \in {"e_acute", "E_acute", "e_grave", "e_diaeresis"} -> "e"
      [] c = "i_diaeresis" -> "i"
      [] c = "c_cedilla" -> "c"
      [] c \in {"o_acute", "O_acute"} -> "o"
      [] c \in UpperSet -> LowerLetters[IndexOf(UpperLetters, c)]
      [] OTHER -> c

\* A name without its combining marks, each letter replaced by its base
\* letter: two names with the same image differ only in letter case and
\* diacritic marks.
Folded(s) ==
    LET t == SelectSeq(s, LAMBDA c : ~IsMn(c))
    IN  [i \in 1..Len(t) |-> BaseLetter(t[i])]

IsBaseAlnum(c) == c \in LowerSet \/ c \in DigitSet

\* The number of words of a name: the runs of letters and digits.
WordCount(s) ==
    LET t == Folded(s)
    IN  Cardinality({ i \in 1..Len(t) :
                        /\ IsBaseAlnum(t[i])
                        /\ (i = 1 \/ ~IsBaseAlnum(t[i - 1])) })

\* The letters and digits of a name, lowercased and without accents.
TheWord(s) == SelectSeq(Folded(s), IsBaseAlnum)

BothKeyed == keyL # Unset /\ keyR # Unset

\* C17: two names that differ only in the letter case of their characters
\* and in the diacritic marks on their letters get the same key.
C17_AccentAndCaseInsensitive ==
    (BothKeyed /\ Folded(nameL) = Folded(nameR)) => keyL = keyR

\* An accented mixed-case spelling and the unaccented upper-case one, both
\* normalized.
C17_Witness ==
    /\ BothKeyed
    /\ nameL = <<"E_acute", "m", "i", "l", "e", " ", "D", "u", "r", "a", "n", "d">>
    /\ nameR = <<"E", "M", "I", "L", "E", " ", "D", "U", "R", "A", "N", "D">>
    /\ keyL = <<"d", "u", "r", "a", "n", "d", " ", "e">>
    /\ keyR = keyL

\* C18: the key of a one-word name is that word, lowercased and without
\* accents; it differs from the key of every name of two or more words and
\* equals the key of another name only if that name is one word with the
\* same normalized word.
C18_OneWordKeyApart ==
    (BothKeyed /\ WordCount(nameL) = 1) =>
        /\ keyL = TheWord(nameL)
        /\ WordCount(nameR) >= 2 => keyL # keyR
        /\ keyL = keyR <=> (WordCount(nameR) = 1 /\ TheWord(nameR) = TheWord(nameL))

\* 'Sachs' and 'Sachs Ignacy', both normalized.
C18_Witness ==
    /\ BothKeyed
    /\ nameL = <<"S", "a", "c", "h", "s">>
    /\ nameR = <<"S", "a", "c", "h", "s", " ", "I", "g", "n", "a", "c", "y">>
    /\ keyL = <<"s", "a", "c", "h", "s">>
    /\ keyR # keyL

(***************************************************************************)
(* Claims about deduplicate_CIRED_ORG, checked under SpecOrg.              *)
(***************************************************************************)
\* The text of an ORG value: the str, or the one item of the list.
OrgText(value) == value.items[1]

OrgTexts(values) == [i \in 1..Len(values) |-> OrgText(values[i])]

\* The long form gives way to the acronym.
FoldedOrg(text) == IF text = LongForm THEN <<"C", "I", "R", "E", "D">> ELSE text

\* The texts that no earlier text equals up to letter case, in order.
FirstOccurrences(texts) ==
    LET kept == SelectSeq([i \in 1..Len(texts) |-> i],
                    LAMBDA i : \A j \in 1..(i - 1) :
                                   ~SameUpToCase(texts[j], texts[i]))
    IN  [k \in 1..Len(kept) |-> texts[kept[k]]]

\* The values that are the long form, the acronym or another organization.
WholeValues ==
    { LongForm, <<"C", "I", "R", "E", "D">>, <<"c", "i", "r", "e", "d">>, <<"U", "n", "i", "v", "e", "r", "s", "i", "t", "y", " ", "o", "f", " ",
                                    "P", "a", "r", "i", "s">> }

\* C19 (as claimed): on a card whose organizations are the long form, the
\* acronym or other organizations, deduplicate_CIRED_ORG leaves the values
\* with the long form rewritten to 'CIRED' and, of the values equal up to
\* letter case, the first occurrence, in their original order.
C19_AcronymThenFirstOccurrences ==
    (/\ opc = "deduplicated"
     /\ \A i \in 1..Len(org_values) : OrgText(org_values[i]) \in WholeValues)
        => OrgTexts(ovcard.org)
              = FirstOccurrences([i \in 1..Len(org_values) |->
                                    FoldedOrg(OrgText(org_values[i]))])

\* The values that repeat a word or an item inside themselves.
RepeatingValues ==
    { <<"C", "I", "R", "E", "D", " ", "C", "I", "R", "E", "D">>, <<"C", "I", "R", "E", "D", ",", " ", "c", "i", "r", "e", "d">>, LongForm \o <<" ", "C", "I", "R", "E", "D">> }

\* C20 (as claimed): on a card with one organization, a value that repeats
\* 'CIRED' inside itself ('CIRED CIRED', 'CIRED, cired', the long form
\* followed by 'CIRED') becomes 'CIRED', and a value without repeats is
\* unchanged.
C20_RepeatsInsideOneValue ==
    (opc = "deduplicated" /\ Len(org_values) = 1 /\ org_values[1].kind = "str") =>
        /\ OrgText(org_values[1]) \in RepeatingValues
              => OrgTexts(ovcard.org) = <<<<"C", "I", "R", "E", "D">>>>
        /\ OrgText(org_values[1]) \in {<<"C", "I", "R", "E", "D">>, <<"U", "n", "i", "v", "e", "r", "s", "i", "t", "y", " ", "o", "f", " ",
                                                  "P", "a", "r", "i", "s">>}
              => OrgTexts(ovcard.org) = OrgTexts(org_values)

(***************************************************************************)
(* Claims about the fields of a cleaned card, checked under SpecStage.     *)
(***************************************************************************)
\* The cards that clean has returned: processed, and not in the error log.
CleanReturned ==
    { processed_cards[k] : k \in 1..Len(processed_cards) } \
        { error_log[k] : k \in 1..Len(error_log) }

\* C21: after clean(card) returns, the card has none of the keys email, url
\* and org with an empty list: a field is a key of the card if and only if
\* it has a value, a field of the input whose values were all removed is no
\* key any more, an emptied org list is logged as an error, and the card is
\* still in the list of cards.
C21_NoEmptyFieldAfterClean ==
    /\ spc # "start" /\ spc # "aborted" /\ spc # "idle" => Len(vcard_list) = Len(stdin)
    /\ \A i \in CleanReturned :
          /\ \A f \in {"email", "url", "org"} :
                f \in vcard_list[i].keys <=> vcard_list[i][f] # <<>>
          /\ ("org" \in stdin[i].vcard.keys /\ "org" \notin vcard_list[i].keys)
                => OrgErrorLogged(stdin[i].vcard)

\* clean has returned a card whose only email was obsolete and a card whose
\* only url was dead: the fields had values on input and are no keys now.
C21_Witness ==
    /\ \E i \in CleanReturned :
          /\ "email" \in stdin[i].vcard.keys
          /\ vcard_list[i].email = <<>> /\ "email" \notin vcard_list[i].keys
          /\ "org" \in vcard_list[i].keys
    /\ \E j \in CleanReturned :
          /\ "url" \in stdin[j].vcard.keys
          /\ vcard_list[j].url = <<>> /\ "url" \notin vcard_list[j].keys

(***************************************************************************)
(* Claims about the order and the groups of the merged contacts, checked   *)
(* under SpecMerge.                                                        *)
(***************************************************************************)
\* The collation key of the full name of a contact; the empty string
\* without FN.
Collate(card) == IF card.fn = <<>> THEN <<>> ELSE strxfrm(card.fn[1])

\* C22: the merged contacts are sorted by the collation key of their full
\* name: each contact's key is at most the key of the next one, a contact
\* without FN having the key of the empty string.
C22_SortedByCollationOfFN ==
    MergeOver =>
        \A m \in 1..(Len(merged_contacts) - 1) :
            WeightsLeq(Collate(merged_contacts[m]), Collate(merged_contacts[m + 1]))

\* Two groups whose keys are in one order and whose full names are in the
\* other: the contact of the greater key comes first.
C22_Witness ==
    /\ MergeOver
    /\ Len(merged_contacts) = 2
    /\ \E k1, k2 \in DOMAIN grouped :
          /\ StrLess(k1, k2)
          /\ merged_contacts[1].fn = grouped[k2][1].fn
          /\ merged_contacts[2].fn = grouped[k1][1].fn
          /\ Collate(merged_contacts[1]) # Collate(merged_contacts[2])

\* The full names of the output file.
OutputNames == Range(FnLines(output_file))

\* The words of a name in reverse order, joined by one space.
WordReversal(name) == Join(<<" ">>, Reversed(Split(name)))

\* The unordered pairs of distinct names of the output of which one is the
\* word-reversal of the other.
InvertedNamePairs ==
    { {pr[1], pr[2]} :
        pr \in { q \in OutputNames \X OutputNames :
                    q[2] = WordReversal(q[1]) /\ q[2] # q[1] } }

\* C23 (as claimed): verify_inverted_fn_pairs reports exactly the unordered
\* pairs of distinct full names of the output of which one is the
\* word-reversal of the other, each once, and returns their number; a name
\* equal to its own word-reversal is not reported.
C23_InvertedPairsOfDistinctNames ==
    mpc = "done" =>
        /\ { {inverted_pairs[i][1], inverted_pairs[i][2]} :
                i \in 1..Len(inverted_pairs) } = InvertedNamePairs
        /\ Len(inverted_pairs) = Cardinality(InvertedNamePairs)
        /\ \A i \in 1..Len(inverted_pairs) :
              inverted_pairs[i][1] # inverted_pairs[i][2]
(***************************************************************************)
(* C24.  The full-name substitution of ingestion.                          *)
(***************************************************************************)
\* The turn is past lines 312-315.
FullNameDone == ipc \in {"fn", "ingested", "raised"}

\* A key '<Surname> <single capital letter>'.
SurnameAndInitial(k) ==
    /\ Len(k) >= 3
    /\ k[Len(k)] \in UpperSet
    /\ k[Len(k) - 1] = " "
    /\ \A i \in 1..(Len(k) - 2) : k[i] # " "

\* The entries of the table of lines 80-125 that a stripped FN resolves to:
\* those it is the key of, and the surname-and-initial ones it is the key
\* of once its trailing period is dropped.
ResolvingEntries(name) ==
    { i \in 1..Len(FN_SUBSTITUTION_BASE) :
        \/ FN_SUBSTITUTION_BASE[i][1] = name
        \/ /\ SurnameAndInitial(FN_SUBSTITUTION_BASE[i][1])
           /\ FN_SUBSTITUTION_BASE[i][1] \o <<".">> = name }

\* C24: after the full-name substitution of a card that has an FN, the FN
\* is the table value of every entry whose key is the stripped FN, or whose
\* key is a surname and a single capital letter and is the stripped FN
\* without its trailing period; an FN that resolves to no entry is as it
\* was read, blanks included; the value is not looked up again.
C24_FullNameSubstitutedOnce ==
    (FullNameDone /\ iraw.fn # <<>>) =>
        LET name == Strip(iraw.fn[1])
        IN  /\ \A i \in ResolvingEntries(name) :
                   ivcard.fn = <<FN_SUBSTITUTION_BASE[i][2]>>
            /\ (ResolvingEntries(name) = {}) => (ivcard.fn = iraw.fn)

\* A card 'Cassen C.' is ingested as 'Christophe Cassen'.
C24_Witness ==
    /\ ipc = "ingested"
    /\ iraw.fn = <<<<"C", "a", "s", "s", "e", "n", " ", "C", ".">>>>
    /\ ivcard.fn = <<<<"C", "h", "r", "i", "s", "t", "o", "p", "h", "e", " ", "C", "a", "s",
                     "s", "e", "n">>>>

(***************************************************************************)
(* C25.  The structured-name substitution of ingestion.                    *)
(***************************************************************************)
\* The five parts that the table of lines 158-178 gives for a name.
StructuredEntry(name) ==
    N_SUBSTITUTION_WHITELIST[
        CHOOSE i \in 1..Len(N_SUBSTITUTION_WHITELIST) :
            N_SUBSTITUTION_WHITELIST[i][1] = name][2]

HasStructuredEntry(name) ==
    \E i \in 1..Len(N_SUBSTITUTION_WHITELIST) : N_SUBSTITUTION_WHITELIST[i][1] = name

\* C25: a card leaves ingestion with the five parts of the table as its
\* structured name when its full name, after the full-name substitution and
\* stripped, is a key of the structured-name table, and with the structured
\* name it was read with otherwise.
C25_StructuredNameFromTable ==
    (ipc = "ingested" /\ ivcard.fn # <<>>) =>
        IF HasStructuredEntry(Strip(ivcard.fn[1]))
        THEN ivcard.n = <<StructuredEntry(Strip(ivcard.fn[1]))>>
        ELSE ivcard.n = iraw.n

(***************************************************************************)
(* C26.  group_contacts partitions the ingested records.                   *)
(***************************************************************************)
\* The positions of the ingested records whose key is k.
RecordsOfKey(k) ==
    { i \in 1..Len(all_contacts) : normalize_fn(all_contacts[i]) = k }

\* The ways to place the members of a group at positions of the ingested
\* sequence, keeping their order.
Placements(k) ==
    { at \in [1..Len(grouped[k]) -> 1..Len(all_contacts)] :
        \A i, j \in 1..Len(grouped[k]) : i < j => at[i] < at[j] }

\* C26: once the records are grouped, the groups are the keys of the
\* records; the members of the group of a key are the records of that key,
\* each once, in arrival order; the sources of a group are as many as its
\* members and the i-th is the source of the i-th member; and the merge
\* makes one contact of each group.
C26_GroupsPartitionTheRecords ==
    /\ IngestionOver =>
          /\ DOMAIN grouped = { normalize_fn(all_contacts[i]) : i \in 1..Len(all_contacts) }
          /\ DOMAIN grouped_sources = DOMAIN grouped
          /\ \A k \in DOMAIN grouped :
                /\ Len(grouped_sources[k]) = Len(grouped[k])
                /\ \E at \in Placements(k) :
                      /\ { at[j] : j \in 1..Len(grouped[k]) } = RecordsOfKey(k)
                      /\ \A j \in 1..Len(grouped[k]) :
                            /\ grouped[k][j] = all_contacts[at[j]]
                            /\ grouped_sources[k][j] = sources[at[j]]
    /\ MergeOver => Len(merged_contacts) = Cardinality(DOMAIN grouped)

\* Two groups, one of them of two records that came from two files.
C26_Witness ==
    /\ MergeOver
    /\ Cardinality(DOMAIN grouped) >= 2
    /\ \E k \in DOMAIN grouped :
          /\ Len(grouped[k]) = 2
          /\ grouped_sources[k][1] # grouped_sources[k][2]
          /\ grouped[k][1] # grouped[k][2]

(***************************************************************************)
(* C27.  Grouping and merging under a permutation of the ingested records. *)
(***************************************************************************)
\* The orders in which the positions of S can be taken.
RECURSIVE Orders(_)
Orders(S) ==
    IF S = {} THEN {<<>>}
    ELSE UNION { { <<x>> \o p : p \in Orders(S \ {x}) } : x \in S }

\* How many times x occurs in s.
Count(s, x) == Cardinality({ i \in 1..Len(s) : s[i] = x })

\* Two lists with the same members, each as many times.
SameMembers(s, t) ==
    /\ Len(s) = Len(t)
    /\ \A i \in 1..Len(s) : Count(s, s[i]) = Count(t, s[i])

\* The records of a group, each with its source.
Sourced(recs, srcs) == [i \in 1..Len(recs) |-> <<recs[i], srcs[i]>>]

\* The text of an attributed entry "[source] text".
EntryText(e) ==
    LET close == CHOOSE i \in 1..Len(e) :
                     e[i] = "]" /\ \A j \in 1..(i - 1) : e[j] # "]"
    IN  SubSeq(e, close + 2, Len(e))

EntryTexts(card, f) == { EntryText(e) : e \in Range(Entries(card, f)) }

\* Two merged contacts with the same organizations, emails, typed urls and
\* note and history texts, whatever their order.
SameValues(a, b) ==
    /\ Range(a.contents.org) = Range(b.contents.org)
    /\ Range(a.contents.email) = Range(b.contents.email)
    /\ Range(a.contents.url) = Range(b.contents.url)
    /\ EntryTexts(a, "note") = EntryTexts(b, "note")
    /\ EntryTexts(a, "hist") = EntryTexts(b, "hist")

\* The same, a value being taken without the blanks around it.
Trimmed(lines) == { Strip(v) : v \in Range(lines) }

TrimmedUrls(lines) == { <<Strip(u.value), u.type>> : u \in Range(lines) }

SameTrimmedValues(a, b) ==
    /\ Trimmed(a.contents.org) = Trimmed(b.contents.org)
    /\ Trimmed(a.contents.email) = Trimmed(b.contents.email)
    /\ TrimmedUrls(a.contents.url) = TrimmedUrls(b.contents.url)
    /\ EntryTexts(a, "note") = EntryTexts(b, "note")
    /\ EntryTexts(a, "hist") = EntryTexts(b, "hist")

\* What group_contacts makes of the ingested records taken in the order p.
Regrouped(p) ==
    group_contacts([i \in 1..Len(p) |-> all_contacts[p[i]]],
                   [i \in 1..Len(p) |-> sources[p[i]]])

\* The groups are the same for the order p: the same keys, and under each
\* key the same records with the same sources.
SamePartition(p) ==
    /\ DOMAIN Regrouped(p).grouped = DOMAIN grouped
    /\ \A k \in DOMAIN grouped :
          SameMembers(Sourced(Regrouped(p).grouped[k], Regrouped(p).grouped_sources[k]),
                      Sourced(grouped[k], grouped_sources[k]))

\* C27: whatever the order in which the ingested records and their sources
\* are taken, the groups are the same, and the contact merged from each
\* group has the same organizations, emails, urls with their type tags and
\* note and history texts as the contact of the output.
C27_OrderOnlyThroughFirstRecord ==
    MergeOver =>
        \A p \in Orders(1..Len(all_contacts)) :
            /\ SamePartition(p)
            /\ \A k \in DOMAIN grouped :
                  /\ merge_vcards(grouped[k], grouped_sources[k]) \in Range(merged_contacts)
                  /\ SameValues(merge_vcards(Regrouped(p).grouped[k],
                                             Regrouped(p).grouped_sources[k]),
                                merge_vcards(grouped[k], grouped_sources[k]))

\* C27, values being compared without the blanks around them: whatever the
\* order of the ingested records, the groups are the same and each merged
\* contact has the same trimmed organizations, emails, urls with their
\* type tags and note and history texts.
C27_OrderOnlyThroughFirstOccurrence ==
    MergeOver =>
        \A p \in Orders(1..Len(all_contacts)) :
            /\ SamePartition(p)
            /\ \A k \in DOMAIN grouped :
                  /\ merge_vcards(grouped[k], grouped_sources[k]) \in Range(merged_contacts)
                  /\ SameTrimmedValues(merge_vcards(Regrouped(p).grouped[k],
                                                    Regrouped(p).grouped_sources[k]),
                                       merge_vcards(grouped[k], grouped_sources[k]))

\* A group of two records for which the order matters: taken the other way
\* round, the merged contact has the same values but for the blanks around
\* one of them.
C27_Witness ==
    /\ MergeOver
    /\ \E k \in DOMAIN grouped : \E p \in Orders(1..Len(all_contacts)) :
          /\ Len(grouped[k]) = 2
          /\ ~SameValues(merge_vcards(Regrouped(p).grouped[k],
                                      Regrouped(p).grouped_sources[k]),
                         merge_vcards(grouped[k], grouped_sources[k]))

(***************************************************************************)
(* C28.  collect_emails and its workers.                                   *)
(***************************************************************************)
\* The pairs that the file of a call holds, none for a file that cannot be
\* opened.
PairsOfCall(i) ==
    IF file_paths[i].readable THEN file_paths[i].pairs ELSE {}

\* C28: whatever the order in which the workers ran and ended, the list
\* that collect_emails returns holds the pairs of all the listed files,
\* those of an unreadable file being none, each pair once, in increasing
\* order; and at any time the set of the calling thread is made of the
\* results it has taken, the workers having written nothing to it.
C28_SortedUnionWhateverTheOrder ==
    /\ cpc = "returned" =>
          /\ \A i \in 1..Len(file_paths) : wpc[i] = "done"
          /\ Range(collected) = UNION { PairsOfCall(i) : i \in 1..Len(file_paths) }
          /\ \A i, j \in 1..Len(collected) :
                i < j => (collected[i] # collected[j] /\ PairLeq(collected[i], collected[j]))
    /\ cpc \in {"map", "returned", "interrupted"} =>
          all_emails = UNION { PairsOfCall(i) : i \in 1..yielded }

\* Two files that share a pair, and one that cannot be opened.
C28_Witness ==
    /\ cpc = "returned"
    /\ Len(mail_dir) = 3 /\ Len(file_paths) = 3
    /\ \E i \in 1..3 : ~file_paths[i].readable
    /\ \E i, j \in 1..3 :
          /\ i # j
          /\ PairsOfCall(i) \cap PairsOfCall(j) # {}
          /\ PairsOfCall(i) \ PairsOfCall(j) # {}
          /\ PairsOfCall(j) \ PairsOfCall(i) # {}
    /\ Len(collected) = 3

(***************************************************************************)
(* C29.  The two override tables of names agree.                           *)
(***************************************************************************)
\* The words a name is made of: lowercased, without accents, a hyphen
\* being a blank.
WordsOf(s) ==
    Range(Split([i \in 1..Len(Folded(s)) |->
                    IF Folded(s)[i] = "-" THEN " " ELSE Folded(s)[i]]))

\* The targets of the keys of the full-name substitution table.
SubstitutionTargets ==
    { FN_SUBSTITUTION_BASE[i][2] : i \in 1..Len(FN_SUBSTITUTION_BASE) }

\* The target of a key of the normalized-key override table.
OverrideTarget(name) ==
    FN_NORMALIZATION_WHITELIST[
        CHOOSE i \in 1..Len(FN_NORMALIZATION_WHITELIST) :
            FN_NORMALIZATION_WHITELIST[i][1] = name][2]

\* The record is in the group of the key.
InGroup(rec, k) == rec \in Range(grouped[k])

\* C29: once the records are grouped, a record that the full-name
\* substitution table has given its target as full name and a record whose
\* full name is a key of the normalized-key override table are in the same
\* group whenever the two targets are made of the same words.
C29_OverrideTablesAgree ==
    IngestionOver =>
        \A i, j \in 1..Len(all_contacts) :
            (/\ all_contacts[i].fn # <<>> /\ all_contacts[j].fn # <<>>
             /\ all_contacts[i].fn[1] \in SubstitutionTargets
             /\ all_contacts[j].fn[1] \in WhitelistKeys
             /\ WordsOf(all_contacts[i].fn[1]) = WordsOf(OverrideTarget(all_contacts[j].fn[1])))
            => \E k \in DOMAIN grouped :
                   InGroup(all_contacts[i], k) /\ InGroup(all_contacts[j], k)

(***************************************************************************)
(* C30.  fix_vcard adds the known email once.                              *)
(***************************************************************************)
\* The non-empty emails that the table of the running script gives for the
\* stripped full name of the card as read: one or none.
KnownEmailsFor ==
    IF fcard.fn = <<>> THEN {}
    ELSE { KnownEmailsOf(fscript)[i][2] : i \in
             { j \in 1..Len(KnownEmailsOf(fscript)) :
                 /\ KnownEmailsOf(fscript)[j][1] = Strip(fcard.fn[1])
                 /\ Strip(KnownEmailsOf(fscript)[j][2]) # <<>> } }

\* The lines of a field with one more value at the end unless it is there.
WithValue(lines, value) ==
    IF \E i \in 1..Len(lines) : lines[i] = value THEN lines ELSE lines \o <<value>>

\* C30: after fix_vcard, a card without FN, or whose stripped FN is no key
\* of the table, or whose known email is empty, is as it was read; any
\* other card has its lines as read, with the known email after its EMAIL
\* lines unless one of them is exactly that value, and the fixed note after
\* its NOTE lines unless one of them is exactly that note; and a second
\* call leaves the card as the first call left it.
C30_KnownEmailAddedOnce ==
    /\ fapplied >= 1 =>
          IF KnownEmailsFor = {} THEN fonce = fcard
          ELSE \A e \in KnownEmailsFor :
                  fonce = [fcard EXCEPT !.contents.email = WithValue(@, e),
                                        !.contents.note = WithValue(@, FixedNote)]
    /\ fapplied = 2 => fvcard = fonce

\* A card with two EMAIL lines, one of them the known email: the first call
\* added the note only, the second nothing.
C30_Witness ==
    /\ fapplied = 2
    /\ KnownEmailsFor # {}
    /\ fonce # fcard
    /\ Len(fonce.contents.note) = Len(fcard.contents.note) + 1
    /\ Len(fonce.contents.email) = Len(fcard.contents.email)
    /\ Len(fcard.contents.email) = 2

=========================================================================
